---- MODULE Spec2Model ----
(***************************************************************************)
(* p2p-playground-lite: the supervision plane (pkg/runtime, pkg/health),   *)
(* the daemon's handlers (pkg/daemon), node discovery (pkg/discovery), the *)
(* connection gater (pkg/p2p) and the controller's fan-out deploy, as      *)
(* state machines.                                                         *)
(*                                                                         *)
(*   Spec        the runtime supervisor: start / Stop / Restart, the exit  *)
(*               monitor goroutine of every child, the health monitor      *)
(*               goroutine of every incarnation, the child processes.      *)
(*   FairSpec    Spec with the fairness the Go scheduler gives goroutines. *)
(*   SpecHealth  one health.Checker driven by StartMonitoring.             *)
(*   SpecDeploy  Daemon.handleDeployRequest on one inbound stream.         *)
(*   SpecDaemon  the daemon with its list and logs handlers and its Stop.  *)
(*   SpecDiscovery  pkg/discovery: announcements, the sweeper, callbacks.  *)
(*   SpecGater   pkg/p2p: the connection gater built from trusted_peers.   *)
(*   SpecRun     the controller's run command: the fan-out deploy.         *)
(*   FairSpecRun SpecRun with the scheduling of the command's goroutine.   *)
(***************************************************************************)
EXTENDS Integers, Sequences, FiniteSets, Bags, TLC

----------------------------------------------------------------------------
(* Bounds of the model *)

\* number of child processes the runtime may spawn in one behaviour
MaxPid == 2

\* number of goroutines that may be inside Stop or Restart at one time
NumCallers == 2

\* cap of the consecutive-failure counter of a checker
MaxFails == 2

\* the clock of a goroutine inside Stop saturates after this many expired
\* grace periods
MaxWaits == 2

\* SpecHealth: ticks of the monitoring loop in one behaviour
MaxTicks == 4

\* SpecDeploy: largest file_size a request declares
MaxFileSize == 2

\* SpecDeploy: largest number of bytes of the archive a client sends
MaxBody == 3

\* SpecDeploy: largest number of bytes a client sends after the archive
MaxExtra == 1

\* SpecDaemon: largest number of lines in stdout.log
MaxLines == 2

\* SpecDiscovery: the clock stops at MaxTime seconds
MaxTime == 60

\* SpecDiscovery: seconds the clock advances in one step
ClockStep == 15

\* SpecGater: largest number of entries of trusted_peers
MaxTrusted == 2

\* SpecRun: largest number of target nodes
MaxTargets == 3

----------------------------------------------------------------------------
(* Program constants *)

\* time.After(10 * time.Second) in Runtime.Stop
GraceSeconds == 10

\* cfg.Retries = 3 when the manifest leaves retries at zero
DefaultRetries == 3

\* buf := make([]byte, 64*1024) in receiveFile
BufSize == 65536

\* maxFileSize = 1024 * 1024 * 1024 of pkg/transfer
maxFileSize == 1073741824

\* NodeTimeout = 30 * time.Second of pkg/discovery
NodeTimeout == 30

AppIds == {"a1"}

Pids == 1..MaxPid

\* types.AppStatusType
AppStatusStopped == "stopped"

AppStatusStarting == "starting"

AppStatusRunning == "running"

AppStatusFailed == "failed"

AppStatusRestarting == "restarting"

AppStatusType ==
  {AppStatusStopped, AppStatusStarting, AppStatusRunning, AppStatusFailed,
   AppStatusRestarting}

\* health.CheckType
CheckTypeProcess == "process"

CheckTypeHTTP == "http"

CheckTypeTCP == "tcp"

\* r.apps has no entry for the id
NoInfo == [none |-> TRUE]

\* app.Manifest.HealthCheck == nil
NoHC == [nohc |-> TRUE]

\* the manifests' health_check sections the model deploys
\* (retries 0 means "not set"; endpoint says whether hc.Endpoint != "")
ManifestHealthChecks ==
  { NoHC, [type |-> CheckTypeHTTP, retries |-> 2, endpoint |-> TRUE] }

\* SpecHealth: the health_check sections the checker under test is built
\* from ("exec" is a type Check does not support)
TestedHealthChecks ==
  [ type : {CheckTypeProcess, CheckTypeHTTP, CheckTypeTCP, "exec"},
    retries : {0, 1, 2},
    endpoint : BOOLEAN ]

Min(a, b) == IF a < b THEN a ELSE b

----------------------------------------------------------------------------
VARIABLES
  apps,       \* Runtime.apps: app id -> appInfo (with the fields of info.app)
  mu,         \* Runtime.mu: "unlocked", or "locked" by the Stop in its select
  nextPid,    \* the pid the next spawned child gets
  procs,      \* the child processes, by pid
  exitMon,    \* the "Monitor process in background" goroutine of each child
  hmon,       \* health.Checker + its StartMonitoring goroutine, by pid
  callers,    \* bag of the goroutines inside Runtime.Stop or Runtime.Restart
  stopWait,   \* seconds the Stop that holds mu has spent in its select
  stopped,    \* history: Stop returned nil and the status is as it left it
  lastReturn, \* history: the call that returned in the last step, its error
  checker,    \* SpecHealth: the health.Checker under test
  hist,       \* SpecHealth: history of the monitoring loop
  dep,        \* SpecDeploy: the deploy handler, its stream and the disk
  srv,        \* SpecDaemon: the daemon's context, its list or logs stream
  disc,       \* SpecDiscovery: discovery.Service, its goroutines, the clock
  gate,       \* SpecGater: the host configuration, its gater, connections
  fan         \* SpecRun: the fan-out deploy of the controller's run command

rtVars ==
  <<apps, mu, nextPid, procs, exitMon, hmon, callers, stopWait, stopped,
    lastReturn>>

vars == <<apps, mu, nextPid, procs, exitMon, hmon, callers, stopWait,
          stopped, lastReturn, checker, hist, dep, srv, disc, gate, fan>>

----------------------------------------------------------------------------
(* pkg/health: Checker *)

\* convertHealthCheckConfig: manifest section -> health.Config
\* (Interval and Timeout are durations the model does not measure)
convertHealthCheckConfig(hc) ==
  [ Type |-> hc.type,
    Retries |-> IF hc.retries = 0 THEN DefaultRetries ELSE hc.retries,
    HTTPPort |-> IF hc.endpoint /\ hc.type = CheckTypeHTTP THEN 8080 ELSE 0,
    TCPPort |-> IF hc.endpoint /\ hc.type = CheckTypeTCP THEN 8080 ELSE 0 ]

\* health.New: counter 0, lastResult "Not checked yet" with Healthy true
New(config, pid) ==
  [ config |-> config,
    pid |-> pid,
    consecutiveFails |-> 0,
    lastResult |-> [Healthy |-> TRUE, FailureCount |-> 0] ]

\* a checker slot that holds no checker
NoChecker ==
  New([Type |-> CheckTypeProcess, Retries |-> 0, HTTPPort |-> 0, TCPPort |-> 0], 0)

\* checkProcess: signal 0 to c.pid succeeds while the process exists
checkProcess(procState) ==
  IF procState = "alive" THEN "healthy" ELSE "unhealthy"

\* checkHTTP: an unset port is an error of the check itself, otherwise the
\* answer is the application's (respOk: a 2xx response), and a request made
\* under a cancelled context fails
checkHTTP(config, respOk, ctxCancelled) ==
  IF config.HTTPPort = 0 THEN "error"
  ELSE IF respOk /\ ~ctxCancelled THEN "healthy" ELSE "unhealthy"

\* checkTCP: the same with the TCP port and a connection (respOk: accepted)
checkTCP(config, respOk, ctxCancelled) ==
  IF config.TCPPort = 0 THEN "error"
  ELSE IF respOk /\ ~ctxCancelled THEN "healthy" ELSE "unhealthy"

\* the switch on c.config.Type at the head of Checker.Check
probeOf(c, procState, respOk, ctxCancelled) ==
  CASE c.config.Type = CheckTypeProcess -> checkProcess(procState)
    [] c.config.Type = CheckTypeHTTP -> checkHTTP(c.config, respOk, ctxCancelled)
    [] c.config.Type = CheckTypeTCP -> checkTCP(c.config, respOk, ctxCancelled)
    [] OTHER -> "error"

\* variant: the counter is not reset by a passing check
nextFails_noReset(c, probe) ==
  IF probe = "unhealthy" THEN c.consecutiveFails + 1 ELSE c.consecutiveFails

\* the consecutive-failure counter after a check
nextFails(c, probe) ==
  IF probe = "unhealthy" THEN c.consecutiveFails + 1 ELSE 0

\* Result.Healthy of a completed check
resultHealthy(c, probe, fails) ==
  probe = "healthy" /\ fails < c.config.Retries

\* Checker.Check: an erroring check returns (nil, err) and changes nothing;
\* otherwise the counter is updated and the result stored in lastResult
Check(c, probe) ==
  IF probe = "error"
  THEN [chk |-> c, ok |-> FALSE, result |-> c.lastResult]
  ELSE LET fails == nextFails(c, probe)
           result == [Healthy |-> resultHealthy(c, probe, fails),
                      FailureCount |-> fails]
       IN [chk |-> [c EXCEPT !.consecutiveFails = fails,
                             !.lastResult = result],
           ok |-> TRUE, result |-> result]

\* variant: onUnhealthy is called only from the threshold on
callsOnUnhealthy_fromThreshold(r) ==
  /\ r.ok
  /\ ~r.result.Healthy
  /\ r.result.FailureCount >= r.chk.config.Retries

\* StartMonitoring calls onUnhealthy exactly when a check completed and
\* its result is not healthy
callsOnUnhealthy(r) == r.ok /\ ~r.result.Healthy

----------------------------------------------------------------------------
(* pkg/runtime: state *)

\* a child process: state none / alive / dead; the signals sent to it
\* while alive; exit code 0 or not; whether the goroutine of a Stop sits in
\* process.Wait() on it
NoProc ==
  [ state |-> "none", app |-> "", termSent |-> FALSE, killSent |-> FALSE,
    exitOk |-> FALSE, stopWaited |-> FALSE ]

\* a monitoring goroutine: state none / running (a cancelled one is gone:
\* none); its checker; the autoRestart and app.ID its onUnhealthy closure
\* captured
NoMonitor ==
  [ state |-> "none", chk |-> NoChecker, auto |-> FALSE, app |-> "" ]

\* a goroutine inside Stop or Restart: where it is (pc), which of the two
\* was called (op), its appID, the autoRestart and the info.app (obj, with
\* its manifest's hc) Restart has read, the seconds since it called Stop,
\* and who called it (by: the operator, or the onUnhealthy closure)
NewCaller ==
  [ pc |-> "", op |-> "", app |-> "", auto |-> FALSE, obj |-> 0,
    hc |-> NoHC, elapsed |-> 0, by |-> "operator" ]

InitChecker == NoChecker

\* SpecHealth, the monitoring loop under test: mon is off / running /
\* cancelled (ctx is done, the loop has not yet seen it) / returned; ticks
\* counts its iterations; of the last iteration: probe is what the check
\* found, before the counter it started from, called whether onUnhealthy
\* was called and passed the FailureCount of the result handed to it;
\* streak counts the failing checks since the last passing one
InitHist ==
  [ mon |-> "off", ticks |-> 0, probe |-> "none", before |-> 0,
    called |-> FALSE, passed |-> 0, streak |-> 0 ]

\* a header without signature
NoSig == [nosig |-> TRUE]

\* no response written yet
NoResp == [noresp |-> TRUE]

\* SpecDeploy, one inbound deploy stream and the daemon's disk.
\*   pc             where handleDeployRequest is (off: no stream)
\*   header         what the client sent as header: ok / short / badjson
\*   req            the header's fields as the controller wrote them
\*   allowUnsigned  config.Security.AllowUnsignedPackages
\*   body, extra    the archive, sent after the header; the number of bytes
\*                  sent after the archive
\*   eof            whether the client then closes its side
\*   kind, hc       what the sent archive decodes to, its health_check
\*   stream         body bytes not yet read
\*   created, file  packages/<file_name>: exists, content
\*   received       receiveFile's counter
\*   appsDir        apps/<app_id>: empty / partial / unpacked
\*   resp           the DeployResponse written to the stream
InitDep ==
  [ pc |-> "off", header |-> "ok",
    req |-> [file_size |-> 0, auto_start |-> FALSE, signature |-> NoSig],
    allowUnsigned |-> FALSE, body |-> <<>>, extra |-> 0, eof |-> FALSE,
    kind |-> "ok", cause |-> "",
    hc |-> NoHC, stream |-> <<>>, created |-> FALSE, file |-> <<>>,
    received |-> 0, appsDir |-> "empty", resp |-> NoResp ]

\* no call has returned in the last step
NoReturn == [call |-> "", app |-> "", err |-> ""]

\* call(app) has returned err ("nil" for no error)
returned(call, a, err) == [call |-> call, app |-> a, err |-> err]

\* SpecDaemon, the daemon beside its deploy handler, and one inbound list
\* or logs stream.
\*   ctx      d.ctx: live, or done once d.cancelFunc() was called
\*   host     d.host: open, or closed (and all its streams with it)
\*   cmds     the pids of the exec.Cmd built with d.ctx
\*   pc       where the handler of the stream is (idle: no stream)
\*   proto    the protocol of the stream: list / logs
\*   header   what the client sent as header: ok / short / badjson
\*   req      the LogsRequest
\*   log      the lines of stdout.log when it is opened
\*   pipe     follow mode: the io.Pipe and its goroutine, none / open (the
\*            goroutine scans) / polling (it is in its ticker loop) / closed
\*   read     follow mode: the lines written to the pipe
\*   apps     the []*types.Application the list handler got from List: the
\*            ids of the records whose info.app it points to
\*   seen     history: status and pid of these when List returned
\*   resp     the response written to the stream
InitSrv ==
  [ ctx |-> "live", host |-> "open", cmds |-> {}, pc |-> "idle", proto |-> "",
    header |-> "ok", req |-> [app_id |-> "", follow |-> FALSE, tail |-> 0],
    log |-> <<>>, pipe |-> "none", read |-> <<>>, apps |-> {}, seen |-> {},
    resp |-> NoResp ]

\* the peer ids of the other hosts
Peers == {"p1", "p2"}

\* s.nodes has no entry for the peer
NoNode == [nonode |-> TRUE]

\* no time
NoTime == -1

\* SpecDiscovery, a started discovery.Service.
\*   ctx         s.ctx: live, or done once Stop called s.cancel()
\*   now         time.Now(), in seconds
\*   nextSweep   when the ticker of cleanupLoop fires next
\*   lastSweep   history: when cleanupStaleNodes ran last
\*   nodes       s.nodes: peer id -> DiscoveredNode (its LastSeen)
\*   onNodeDiscovered, onNodeLost   whether the callback is set
\*   nodesMu     s.nodesMu: free, or the loop whose handler holds it
\*   pending     the goroutines started by "go s.onNode...(...)" that have
\*               not run yet: callback, peer, number among those of the peer
\*   running     the callbacks that are executing, and whether the
\*               goroutine that executes them holds s.nodesMu
\*   issued      history: per peer, the callbacks in the order of their go
\*               statements
\*   delivered   history: per peer, the callbacks in the order they ran
\*   heard       history: per peer, when its last announcement was
\*               processed, NoTime before the first and after an eviction
\*   first       history: per peer, when the announcement that created its
\*               entry was processed
InitDisc ==
  [ ctx |-> "live", now |-> 0, nextSweep |-> NodeTimeout \div 2,
    lastSweep |-> NoTime,
    nodes |-> [p \in Peers |-> NoNode],
    onNodeDiscovered |-> FALSE, onNodeLost |-> FALSE,
    nodesMu |-> "free", pending |-> {}, running |-> {},
    issued |-> [p \in Peers |-> <<>>],
    delivered |-> [p \in Peers |-> <<>>],
    heard |-> [p \in Peers |-> NoTime],
    first |-> [p \in Peers |-> NoTime] ]

\* no connection decision taken yet
NoDecision == [nodecision |-> TRUE]

\* SpecGater, a host and its connection gater.
\*   pc            off / config (NewHost not yet called) / host
\*   TrustedPeers  HostConfig.TrustedPeers, the strings of the configuration
\*   gater         the connectionGater given to libp2p: whether there is
\*                 one (installed), and its trustedPeers map as a set
\*   conns         the connections of the host: direction and remote peer
\*   last          history: the last connection attempt and its outcome
InitGate ==
  [ pc |-> "off", TrustedPeers |-> <<>>,
    gater |-> [installed |-> FALSE, trustedPeers |-> {}],
    conns |-> {}, last |-> NoDecision ]

\* the node ids the run command deploys to
Nodes == {"n1", "n2", "n3"}

\* deployments has no entry for the node
NoApp == ""

\* SpecRun, the fan-out deploy of the run command.
\*   pc             off / deploying / returned
\*   targetPeerIDs  the targets
\*   running        the goroutines (by index of their target) that have
\*                  not sent their result yet
\*   results        the channel of deploymentResult
\*   i              the counter of the collecting loop
\*   deployments    map peerID -> appID
\*   deployErrors   the list of errors, each with the node it names
\*   ret            what the deploy phase ends with: "" while it runs, an
\*                  error, or "nil" when RunE goes on to stream logs
\*   succeeded, failed   history: the indices of the targets whose
\*                  common.DeployPackage returned an app id, an error
InitFan ==
  [ pc |-> "off", targetPeerIDs |-> <<>>, running |-> {}, results |-> <<>>,
    i |-> 0, deployments |-> [n \in Nodes |-> NoApp], deployErrors |-> <<>>,
    ret |-> "", succeeded |-> {}, failed |-> {} ]

RtInit ==
  /\ apps = [a \in AppIds |-> NoInfo]
  /\ mu = "unlocked"
  /\ nextPid = 1
  /\ procs = [p \in Pids |-> NoProc]
  /\ exitMon = [p \in Pids |-> "none"]
  /\ hmon = [p \in Pids |-> NoMonitor]
  /\ callers = EmptyBag
  /\ stopWait = 0
  /\ stopped = [a \in AppIds |-> FALSE]
  /\ lastReturn = NoReturn

Init ==
  /\ RtInit
  /\ checker = InitChecker
  /\ hist = InitHist
  /\ dep = InitDep
  /\ srv = InitSrv
  /\ disc = InitDisc
  /\ gate = InitGate
  /\ fan = InitFan

----------------------------------------------------------------------------
(* pkg/runtime: Runtime.start *)

\* variant: the func cancels nothing
cancelHealth_nothing(hm, p) == hm

\* context.CancelFunc of a health monitor: cancels the context of the
\* monitor started for incarnation p (0 is the nil func: nothing to cancel)
cancelHealth(hm, p) ==
  IF p = 0 \/ hm[p].state # "running" THEN hm
  ELSE [hm EXCEPT ![p] = NoMonitor]

\* variant: start refuses whenever the table has a record for the id
alreadyRunning_anyRecord(a) == apps[a] # NoInfo

\* "Check if already running" at the head of start
alreadyRunning(a) == apps[a] # NoInfo /\ apps[a].status = AppStatusRunning

\* the appInfo start stores for a spawned child; obj is the identity of
\* info.app (an Application the table never held is named after the pid)
newInfo(pid, obj, hc, autoRestart) ==
  [ status |-> AppStatusRunning,
    pid |-> pid,
    obj |-> IF obj = 0 THEN pid ELSE obj,
    hc |-> hc,
    autoRestart |-> autoRestart,
    cancelHealth |-> IF hc = NoHC THEN 0 ELSE pid ]

\* the checker and monitoring goroutine start creates for pid
newMonitor(a, pid, hc, autoRestart) ==
  [ state |-> "running",
    chk |-> New(convertHealthCheckConfig(hc), pid),
    auto |-> autoRestart, app |-> a ]

\* the error Runtime.start returns ("nil" for none; every failure between
\* MkdirAll and cmd.Start goes as "failed to start process")
startErr(a, spawnOk) ==
  IF alreadyRunning(a) THEN "ErrAppAlreadyRunning"
  ELSE IF ~spawnOk THEN "failed to start process"
  ELSE "nil"

\* Runtime.start, under r.mu from entry to return.
\*   obj      the *types.Application passed in: 0 for an object the table
\*            has never held, else the identity of the object
\*   spawnOk  whether MkdirAll, both OpenFile and cmd.Start succeed
start(a, obj, hc, autoRestart, spawnOk) ==
  /\ mu = "unlocked"
  /\ stopped' = [stopped EXCEPT ![a] = FALSE]
  /\ IF alreadyRunning(a)
       THEN UNCHANGED <<apps, nextPid, procs, exitMon, hmon>>
     ELSE IF ~spawnOk
       THEN \* app.Status = starting was written to the object passed in
            /\ apps' = IF apps[a] # NoInfo /\ apps[a].obj = obj
                         THEN [apps EXCEPT ![a].status = AppStatusStarting]
                         ELSE apps
            /\ UNCHANGED <<nextPid, procs, exitMon, hmon>>
     ELSE /\ nextPid <= MaxPid
          /\ nextPid' = nextPid + 1
          /\ procs' = [procs EXCEPT ![nextPid] =
                         [NoProc EXCEPT !.state = "alive", !.app = a]]
          /\ apps' = [apps EXCEPT ![a] = newInfo(nextPid, obj, hc, autoRestart)]
          /\ hmon' = IF hc = NoHC THEN hmon
                     ELSE [hmon EXCEPT ![nextPid] =
                             newMonitor(a, nextPid, hc, autoRestart)]
          /\ exitMon' = [exitMon EXCEPT ![nextPid] = "waiting"]

\* Runtime.Start / Runtime.StartWithAutoRestart called with a freshly
\* constructed Application (as Daemon.DeployPackage builds one per deploy)
Start(a, hc, autoRestart, spawnOk) ==
  /\ start(a, 0, hc, autoRestart, spawnOk)
  /\ lastReturn' = returned("Start", a, startErr(a, spawnOk))
  /\ UNCHANGED <<mu, callers, stopWait>>
  /\ UNCHANGED <<checker, hist, dep, srv, disc, gate, fan>>

----------------------------------------------------------------------------
(* goroutines inside Stop and Restart *)

\* a goroutine starts
spawn(bag, cl) == bag (+) SetToBag({cl})

\* a goroutine returns
return(bag, cl) == bag (-) SetToBag({cl})

\* a goroutine moves on
step(bag, cl, next) == (bag (-) SetToBag({cl})) (+) SetToBag({next})

\* the model holds at most NumCallers goroutines at a time
mayspawn == BagCardinality(callers) < NumCallers

RECURSIVE copies(_, _)
copies(bag, S) ==
  IF S = {} THEN 0
  ELSE LET x == CHOOSE y \in S : TRUE IN bag[x] + copies(bag, S \ {x})

\* every goroutine cl of the bag becomes f[cl]
mapBag(bag, f) ==
  [ y \in {f[x] : x \in DOMAIN bag} |->
      copies(bag, {x \in DOMAIN bag : f[x] = y}) ]

----------------------------------------------------------------------------
(* pkg/runtime: Runtime.Stop *)

\* a goroutine calls Runtime.Stop (directly, or as the first step of
\* Restart) and from here on waits for r.mu
enterStop(cl) == [cl EXCEPT !.pc = "stop_lock", !.elapsed = 0]

\* process.Signal(syscall.SIGTERM): fails once the child has exited and
\* been reaped by cmd.Wait() (reaped); a child that has exited but is not
\* yet reaped still takes the signal
signalFails(proc, reaped) == proc.state = "dead" /\ reaped

\* variant: an app that is not running is reported as not found
stopEarly_notFound(info, reaped) ==
  IF info = NoInfo \/ info.status # AppStatusRunning THEN "ErrNotFound"
  ELSE IF signalFails(procs[info.pid], reaped) THEN "failed to stop process"
  ELSE ""

\* the value Stop returns when it returns before the select ("" when it
\* goes on to the select)
stopEarly(info, reaped) ==
  IF info = NoInfo THEN "ErrNotFound"
  ELSE IF info.status # AppStatusRunning THEN "ErrAppNotRunning"
  ELSE IF signalFails(procs[info.pid], reaped) THEN "failed to stop process"
  ELSE ""

\* Restart goes on after its Stop unless err != nil && err != ErrAppNotRunning
restartGoesOn(ret) == ret \in {"nil", "ErrAppNotRunning"}

\* the bag after the Stop of cl has returned ret: Stop's own caller is done,
\* Restart sleeps and goes to its second read, or returns the error
afterStop(bag, cl, ret) ==
  IF cl.op = "Restart" /\ restartGoesOn(ret)
    THEN step(bag, cl, [cl EXCEPT !.pc = "r_read2", !.elapsed = 0])
    ELSE return(bag, cl)

\* what has returned once the Stop of cl has returned err: Restart itself
\* if it hands the error on, else Stop (to its caller, or into Restart)
stopReturned(cl, err) ==
  IF cl.op = "Restart" /\ ~restartGoesOn(err)
    THEN returned("Restart", cl.app, err)
    ELSE returned("Stop", cl.app, err)

\* the operator calls Stop(a)
StopCall(a) ==
  /\ mayspawn
  /\ callers' = spawn(callers, enterStop([NewCaller EXCEPT !.op = "Stop", !.app = a]))
  /\ lastReturn' = NoReturn
  /\ UNCHANGED <<apps, mu, nextPid, procs, exitMon, hmon, stopWait, stopped>>
  /\ UNCHANGED <<checker, hist, dep, srv, disc, gate, fan>>

\* Stop from r.mu.Lock() up to the select: the early returns, the
\* cancellation of the health monitor, SIGTERM and the waiter goroutine
StopBegin(cl, reaped) ==
  LET a == cl.app
      info == apps[a]
      ret == stopEarly(info, reaped)
  IN
  /\ BagIn(cl, callers)
  /\ cl.pc = "stop_lock"
  /\ mu = "unlocked"
  /\ reaped => ret = "failed to stop process"
  /\ IF ret \in {"ErrNotFound", "ErrAppNotRunning"}
       THEN /\ callers' = afterStop(callers, cl, ret)
            /\ UNCHANGED <<apps, mu, procs, hmon, stopWait>>
     ELSE /\ hmon' = cancelHealth(hmon, info.cancelHealth)
          /\ apps' = [apps EXCEPT ![a].cancelHealth = 0]
          /\ IF ret = "failed to stop process"
               THEN /\ callers' = afterStop(callers, cl, ret)
                    /\ UNCHANGED <<mu, procs, stopWait>>
               ELSE /\ procs' = [procs EXCEPT
                          ![info.pid].termSent = (procs[info.pid].state = "alive"),
                          ![info.pid].stopWaited =
                             (procs[info.pid].state = "alive" \/ procs[info.pid].exitOk)]
                    /\ mu' = "locked"
                    /\ stopWait' = 0
                    /\ callers' = step(callers, cl, [cl EXCEPT !.pc = "stop_wait"])
  /\ lastReturn' = IF ret = "" THEN NoReturn ELSE stopReturned(cl, ret)
  /\ UNCHANGED <<nextPid, exitMon, stopped>>
  /\ UNCHANGED <<checker, hist, dep, srv, disc, gate, fan>>

\* the status and pid Stop writes before it returns nil
stopWrites(info) == [info EXCEPT !.status = AppStatusStopped, !.pid = 0]

\* the select of Stop may leave through "case <-done": the goroutine
\* "process.Wait(); close(done)" has returned, the child being gone
doneReady(proc) == proc.state = "dead"

\* the select of Stop may leave through "case <-time.After(10s)"
timerFired(waited) == waited >= GraceSeconds

\* the select of Stop and what follows it: either done is closed, or the
\* 10 s timer fires and process.Kill() is called; then the record is
\* written and r.mu released
StopEnd(cl, how) ==
  LET a == cl.app
      p == apps[a].pid
  IN
  /\ BagIn(cl, callers)
  /\ cl.pc = "stop_wait"
  /\ \/ how = "done" /\ doneReady(procs[p])
     \/ how = "timeout" /\ timerFired(stopWait)
  /\ procs' = [procs EXCEPT
       ![p].killSent = (how = "timeout" /\ procs[p].state = "alive")]
  /\ apps' = [apps EXCEPT ![a] = stopWrites(apps[a])]
  /\ mu' = "unlocked"
  /\ stopWait' = 0
  /\ stopped' = [stopped EXCEPT ![a] = TRUE]
  /\ callers' = afterStop(callers, cl, "nil")
  /\ lastReturn' = stopReturned(cl, "nil")
  /\ UNCHANGED <<nextPid, exitMon, hmon>>
  /\ UNCHANGED <<checker, hist, dep, srv, disc, gate, fan>>

\* the clock of a goroutine inside Stop after a further d seconds
later(cl, d) ==
  IF cl.pc \in {"stop_lock", "stop_wait"}
    THEN [cl EXCEPT !.elapsed = Min(cl.elapsed + d, MaxWaits * GraceSeconds)]
    ELSE cl

\* time passes until the timer of the Stop that sits in its select expires;
\* the clock of every goroutine that is inside a call of Stop advances
Tick ==
  /\ mu = "locked"
  /\ stopWait < GraceSeconds
  /\ stopWait' = GraceSeconds
  /\ callers' = mapBag(callers,
                  [cl \in DOMAIN callers |-> later(cl, GraceSeconds - stopWait)])
  /\ lastReturn' = NoReturn
  /\ UNCHANGED <<apps, mu, nextPid, procs, exitMon, hmon, stopped>>
  /\ UNCHANGED <<checker, hist, dep, srv, disc, gate, fan>>

----------------------------------------------------------------------------
(* pkg/runtime: Runtime.Restart *)

\* a goroutine enters Restart(a)
enterRestart(a, by) ==
  [NewCaller EXCEPT !.pc = "r_read1", !.op = "Restart", !.app = a, !.by = by]

\* the operator calls Restart(a)
RestartCall(a) ==
  /\ mayspawn
  /\ callers' = spawn(callers, enterRestart(a, "operator"))
  /\ lastReturn' = NoReturn
  /\ UNCHANGED <<apps, mu, nextPid, procs, exitMon, hmon, stopWait, stopped>>
  /\ UNCHANGED <<checker, hist, dep, srv, disc, gate, fan>>

\* Restart, first RLock section: ErrNotFound, or remember info.autoRestart
\* and call Stop
RestartRead1(cl) ==
  /\ BagIn(cl, callers)
  /\ cl.pc = "r_read1"
  /\ mu = "unlocked"
  /\ callers' =
       IF apps[cl.app] = NoInfo THEN return(callers, cl)
       ELSE step(callers, cl,
                 enterStop([cl EXCEPT !.auto = apps[cl.app].autoRestart]))
  /\ lastReturn' = IF apps[cl.app] = NoInfo
              THEN returned("Restart", cl.app, "ErrNotFound") ELSE NoReturn
  /\ UNCHANGED <<apps, mu, nextPid, procs, exitMon, hmon, stopWait, stopped>>
  /\ UNCHANGED <<checker, hist, dep, srv, disc, gate, fan>>

\* Restart after time.Sleep(time.Second), second RLock section: fetch
\* info.app again
RestartRead2(cl) ==
  /\ BagIn(cl, callers)
  /\ cl.pc = "r_read2"
  /\ mu = "unlocked"
  /\ callers' =
       IF apps[cl.app] = NoInfo THEN return(callers, cl)
       ELSE step(callers, cl,
                 [cl EXCEPT !.pc = "r_start", !.obj = apps[cl.app].obj,
                            !.hc = apps[cl.app].hc])
  /\ lastReturn' = IF apps[cl.app] = NoInfo
              THEN returned("Restart", cl.app, "ErrNotFound") ELSE NoReturn
  /\ UNCHANGED <<apps, mu, nextPid, procs, exitMon, hmon, stopWait, stopped>>
  /\ UNCHANGED <<checker, hist, dep, srv, disc, gate, fan>>

\* variant: Restart starts the app again through Start, without the flag
RestartStart_plainStart(cl, spawnOk) ==
  /\ BagIn(cl, callers)
  /\ cl.pc = "r_start"
  /\ start(cl.app, cl.obj, cl.hc, FALSE, spawnOk)
  /\ callers' = return(callers, cl)
  /\ lastReturn' = returned("Restart", cl.app, startErr(cl.app, spawnOk))
  /\ UNCHANGED <<mu, stopWait>>
  /\ UNCHANGED <<checker, hist, dep, srv, disc, gate, fan>>

\* Restart's "return r.start(ctx, info.app, autoRestart)"
RestartStart(cl, spawnOk) ==
  /\ BagIn(cl, callers)
  /\ cl.pc = "r_start"
  /\ start(cl.app, cl.obj, cl.hc, cl.auto, spawnOk)
  /\ callers' = return(callers, cl)
  /\ lastReturn' = returned("Restart", cl.app, startErr(cl.app, spawnOk))
  /\ UNCHANGED <<mu, stopWait>>
  /\ UNCHANGED <<checker, hist, dep, srv, disc, gate, fan>>

----------------------------------------------------------------------------
(* the child processes *)

\* the process is gone: no signal is pending for it any more
exited(proc, ok) ==
  [proc EXCEPT !.state = "dead", !.exitOk = ok, !.termSent = FALSE,
               !.killSent = FALSE, !.stopWaited = proc.stopWaited /\ ok]

\* the program ends on its own, with exit code 0 (ok) or not
ChildExit(p, ok) ==
  /\ procs[p].state = "alive"
  /\ procs' = [procs EXCEPT ![p] = exited(procs[p], ok)]
  /\ lastReturn' = NoReturn
  /\ UNCHANGED <<apps, mu, nextPid, exitMon, hmon, callers, stopWait, stopped>>
  /\ UNCHANGED <<checker, hist, dep, srv, disc, gate, fan>>

\* the kernel ends the program on SIGKILL, or on a SIGTERM the program
\* does not catch
ChildKilled(p) ==
  /\ procs[p].state = "alive"
  /\ procs[p].killSent \/ procs[p].termSent
  /\ procs' = [procs EXCEPT ![p] = exited(procs[p], FALSE)]
  /\ lastReturn' = NoReturn
  /\ UNCHANGED <<apps, mu, nextPid, exitMon, hmon, callers, stopWait, stopped>>
  /\ UNCHANGED <<checker, hist, dep, srv, disc, gate, fan>>

----------------------------------------------------------------------------
(* pkg/runtime: the goroutine "Monitor process in background" of start *)

\* err of cmd.Wait(): nil for exit code 0, an error for any other exit and
\* when the exit status went to the process.Wait() of a Stop instead
\* (raced), which can happen only if a Stop waits on the child
waitErr(proc, raced) == ~proc.exitOk \/ (raced /\ proc.stopWaited)

\* variant: a failed exit is recorded as "restarting"
exitStatus_restarting(err) ==
  IF err THEN AppStatusRestarting ELSE AppStatusStopped

\* variant: every exit is recorded as "stopped"
exitStatus_stopped(err) == AppStatusStopped

\* the status the monitor writes
exitStatus(err) == IF err THEN AppStatusFailed ELSE AppStatusStopped

\* variant: the monitor clears the pid and leaves the status alone
monitorWrites_pidOnly(info, err) == [info EXCEPT !.pid = 0]

\* what the monitor writes to the record it finds under app.ID
monitorWrites(info, err) ==
  [info EXCEPT !.status = exitStatus(err), !.pid = 0]

\* variant: the monitor, still holding r.mu, calls r.Restart for an app
\* with auto_restart; the RLock of Restart waits for the lock the monitor
\* holds
MonitorUpdate_restarts(p, raced) ==
  LET a == procs[p].app
      err == waitErr(procs[p], raced)
  IN
  /\ exitMon[p] = "waiting"
  /\ procs[p].state = "dead"
  /\ raced => (procs[p].stopWaited /\ procs[p].exitOk)
  /\ mu = "unlocked"
  /\ exitMon' = [exitMon EXCEPT ![p] = "done"]
  /\ procs' = [procs EXCEPT ![p].exitOk = FALSE, ![p].stopWaited = FALSE]
  /\ IF apps[a] # NoInfo
       THEN /\ hmon' = cancelHealth(hmon, apps[a].cancelHealth)
            /\ apps' = [apps EXCEPT ![a] = monitorWrites(apps[a], err)]
            /\ stopped' = [stopped EXCEPT ![a] =
                             stopped[a] /\ apps'[a].status = AppStatusStopped]
            /\ mu' = IF apps[a].autoRestart THEN "locked" ELSE mu
       ELSE UNCHANGED <<hmon, apps, stopped, mu>>
  /\ lastReturn' = NoReturn
  /\ UNCHANGED <<nextPid, callers, stopWait>>
  /\ UNCHANGED <<checker, hist, dep, srv, disc, gate, fan>>

\* cmd.Wait() has returned; the monitor takes r.mu, looks up
\* r.apps[app.ID], cancels the health monitor of the appInfo it finds,
\* writes status and pid
MonitorUpdate(p, raced) ==
  LET a == procs[p].app
      err == waitErr(procs[p], raced)
  IN
  /\ exitMon[p] = "waiting"
  /\ procs[p].state = "dead"
  /\ raced => (procs[p].stopWaited /\ procs[p].exitOk)
  /\ mu = "unlocked"
  /\ exitMon' = [exitMon EXCEPT ![p] = "done"]
  /\ procs' = [procs EXCEPT ![p].exitOk = FALSE, ![p].stopWaited = FALSE]
  /\ IF apps[a] # NoInfo
       THEN /\ hmon' = cancelHealth(hmon, apps[a].cancelHealth)
            /\ apps' = [apps EXCEPT ![a] = monitorWrites(apps[a], err)]
            /\ stopped' = [stopped EXCEPT ![a] =
                             stopped[a] /\ apps'[a].status = AppStatusStopped]
       ELSE UNCHANGED <<hmon, apps, stopped>>
  /\ lastReturn' = NoReturn
  /\ UNCHANGED <<mu, nextPid, callers, stopWait>>
  /\ UNCHANGED <<checker, hist, dep, srv, disc, gate, fan>>

----------------------------------------------------------------------------
(* pkg/health: StartMonitoring, with the onUnhealthy closure of start *)

\* the onUnhealthy closure of Runtime.start: with autoRestart it spawns a
\* goroutine that calls r.Restart(app.ID)
spawnsRestart(hm, r) == callsOnUnhealthy(r) /\ hm.auto

\* one iteration of the loop on ticker.C: Check, then onUnhealthy. Once
\* the context is cancelled the loop returns (a tick that races with the
\* cancellation counts as taken before it).
HealthTick(p, respOk) ==
  LET hm == hmon[p]
      probe == probeOf(hm.chk, procs[p].state, respOk, FALSE)
      r == Check(hm.chk, probe)
  IN
  /\ hm.state = "running"
  /\ probe = "unhealthy" => hm.chk.consecutiveFails < MaxFails
  /\ hmon' = [hmon EXCEPT ![p].chk = r.chk]
  /\ IF spawnsRestart(hm, r)
       THEN /\ mayspawn
            /\ callers' = spawn(callers, enterRestart(hm.app, "onUnhealthy"))
       ELSE UNCHANGED callers
  /\ lastReturn' = NoReturn
  /\ UNCHANGED <<apps, mu, nextPid, procs, exitMon, stopWait, stopped>>
  /\ UNCHANGED <<checker, hist, dep, srv, disc, gate, fan>>

----------------------------------------------------------------------------
(* the runtime supervisor *)

Next ==
  \/ \E a \in AppIds, hc \in ManifestHealthChecks, ar \in BOOLEAN,
        ok \in BOOLEAN : Start(a, hc, ar, ok)
  \/ \E a \in AppIds : StopCall(a)
  \/ \E cl \in DOMAIN callers, reaped \in BOOLEAN : StopBegin(cl, reaped)
  \/ \E cl \in DOMAIN callers, how \in {"done", "timeout"} : StopEnd(cl, how)
  \/ Tick
  \/ \E a \in AppIds : RestartCall(a)
  \/ \E cl \in DOMAIN callers : RestartRead1(cl)
  \/ \E cl \in DOMAIN callers : RestartRead2(cl)
  \/ \E cl \in DOMAIN callers, ok \in BOOLEAN : RestartStart(cl, ok)
  \/ \E p \in Pids, ok \in BOOLEAN : ChildExit(p, ok)
  \/ \E p \in Pids : ChildKilled(p)
  \/ \E p \in Pids, raced \in BOOLEAN : MonitorUpdate(p, raced)
  \/ \E p \in Pids, ok \in BOOLEAN : HealthTick(p, ok)

Spec == Init /\ [][Next]_vars

\* Scheduling: the kernel clock advances and a fired timer is served, so a
\* Stop in its select gets out of it (Tick, StopEnd); a runnable goroutine
\* is scheduled, and sync.Mutex in starvation mode hands the lock to a
\* goroutine that has waited for it, so an exit monitor blocked in
\* r.mu.Lock() gets the lock even if Stops keep taking it (MonitorUpdate).
Fairness ==
  /\ WF_vars(Tick)
  /\ WF_vars(\E cl \in DOMAIN callers, how \in {"done", "timeout"} : StopEnd(cl, how))
  /\ \A p \in Pids : SF_vars(\E raced \in BOOLEAN : MonitorUpdate(p, raced))

FairSpec == Init /\ [][Next]_vars /\ Fairness

----------------------------------------------------------------------------
(* SpecHealth: one Checker under StartMonitoring *)

InitHealth ==
  /\ RtInit
  /\ dep = InitDep
  /\ srv = InitSrv
  /\ disc = InitDisc
  /\ gate = InitGate
  /\ fan = InitFan
  /\ checker \in {New(convertHealthCheckConfig(hc), 1) : hc \in TestedHealthChecks}
  /\ hist = [InitHist EXCEPT !.mon = "running"]

\* the history after an iteration that started from checker c and found
\* probe, r being what Check returned
recordTick(h, c, probe, r) ==
  [ h EXCEPT
      !.ticks = h.ticks + 1,
      !.probe = probe,
      !.before = c.consecutiveFails,
      !.called = callsOnUnhealthy(r),
      !.passed = IF callsOnUnhealthy(r) THEN r.result.FailureCount ELSE 0,
      !.streak = CASE probe = "unhealthy" -> h.streak + 1
                   [] probe = "healthy" -> 0
                   [] OTHER -> h.streak ]

\* one iteration of the loop of StartMonitoring on "case <-ticker.C"
monitorIteration(procState, respOk, ctxCancelled) ==
  LET probe == probeOf(checker, procState, respOk, ctxCancelled)
      r == Check(checker, probe)
  IN
  /\ hist.ticks < MaxTicks
  /\ checker' = r.chk
  /\ hist' = recordTick(hist, checker, probe, r)
  /\ UNCHANGED rtVars
  /\ UNCHANGED <<dep, srv, disc, gate, fan>>

\* the ticker fires while the context is live
MonitorTick(procState, respOk) ==
  /\ hist.mon = "running"
  /\ monitorIteration(procState, respOk, FALSE)

\* the owner of the monitor calls the cancel func of its context
MonitorCancel ==
  /\ hist.mon = "running"
  /\ hist' = [hist EXCEPT !.mon = "cancelled"]
  /\ UNCHANGED checker
  /\ UNCHANGED rtVars
  /\ UNCHANGED <<dep, srv, disc, gate, fan>>

\* the ticker fires when the context is already done and the select takes
\* the tick: the check runs under the cancelled context
MonitorTickCancelled(procState, respOk) ==
  /\ hist.mon = "cancelled"
  /\ monitorIteration(procState, respOk, TRUE)

\* the select takes "case <-ctx.Done()": StartMonitoring returns
MonitorReturn ==
  /\ hist.mon = "cancelled"
  /\ hist' = [hist EXCEPT !.mon = "returned"]
  /\ UNCHANGED checker
  /\ UNCHANGED rtVars
  /\ UNCHANGED <<dep, srv, disc, gate, fan>>

NextHealth ==
  \/ \E ps \in {"alive", "dead"}, ok \in BOOLEAN : MonitorTick(ps, ok)
  \/ MonitorCancel
  \/ \E ps \in {"alive", "dead"}, ok \in BOOLEAN : MonitorTickCancelled(ps, ok)
  \/ MonitorReturn

SpecHealth == InitHealth /\ [][NextHealth]_vars

----------------------------------------------------------------------------
(* pkg/security: signatures *)

\* the key pairs of the model, named by their public key
Keys == {"k1", "k2"}

\* the public keys in config.Security.PublicKeysDir
TrustSet == {"k1"}

\* types.ErrInvalidSignature
ErrInvalidSignature == "invalid signature"

\* types.ErrPackageNotSigned
ErrPackageNotSigned == "package not signed"

\* types.ErrInvalidManifest
ErrInvalidManifest == "invalid manifest"

\* HashFile: SHA-256 of the content, taken as collision free
HashFile(bytes) == <<"sha256", bytes>>

\* Signer.SignFile: ed25519.Sign over the hash of the file
SignFile(key, bytes) == [signer |-> key, msg |-> HashFile(bytes)]

\* VerifyFile: ed25519.Verify of the signature over the hash of the file
VerifyFile(bytes, signature, publicKey) ==
  IF /\ signature # NoSig
     /\ signature.signer = publicKey
     /\ signature.msg = HashFile(bytes)
    THEN "nil" ELSE ErrInvalidSignature

----------------------------------------------------------------------------
(* SpecDeploy: Daemon.handleDeployRequest *)

\* a body of n bytes (each byte is numbered by its place)
bodyOf(n) == [i \in 1..n |-> i]

\* n bytes that follow the archive on the stream
trailing(n) == [i \in 1..n |-> 0]

\* all the bytes the client sends after the header
sent(d) == d.body \o trailing(d.extra)

\* the file sizes a header declares: small ones, and one above the largest
\* size pkg/transfer accepts
DeclaredSizes == (0..MaxFileSize) \cup {maxFileSize + 1}

\* the archive with one byte flipped
tampered(bytes) ==
  IF bytes = <<>> THEN <<0>> ELSE [bytes EXCEPT ![1] = 0]

\* the .sig files a controller may hold for the archive it sends: none, one
\* made with either key, one made before the archive was changed
signaturesFor(bytes) ==
  {NoSig} \cup {SignFile(k, bytes) : k \in Keys}
          \cup {SignFile("k1", tampered(bytes))}

\* what an archive of len bytes may decode to: an empty file is no gzip
\* stream. nomanifest: no entry named manifest.yaml; unparseable: the
\* entry is not YAML for a Manifest; badmanifest: it parses and lacks name,
\* version or entrypoint
archiveKinds(len) ==
  IF len = 0 THEN {"notgzip"}
  ELSE {"ok", "nomanifest", "unparseable", "badmanifest", "notgzip"}

\* the requests the model sends
DeployInputs ==
  { d \in
      { [ InitDep EXCEPT
            !.pc = "header", !.header = h,
            !.req = [file_size |-> n, auto_start |-> st, signature |-> sg],
            !.allowUnsigned = au, !.body = bodyOf(len), !.extra = x, !.eof = e,
            !.kind = k, !.hc = hc, !.stream = bodyOf(len) \o trailing(x) ] :
          h \in {"ok", "short", "badjson"}, n \in DeclaredSizes,
          st \in BOOLEAN,
          sg \in UNION {signaturesFor(bodyOf(l)) : l \in 0..MaxBody},
          au \in BOOLEAN, len \in 0..MaxBody, x \in 0..MaxExtra,
          e \in BOOLEAN, k \in archiveKinds(1), hc \in ManifestHealthChecks } :
      d.kind \in archiveKinds(Len(d.body)) }

InitDeploy ==
  /\ RtInit
  /\ srv = InitSrv
  /\ disc = InitDisc
  /\ gate = InitGate
  /\ fan = InitFan
  /\ checker = InitChecker
  /\ hist = InitHist
  /\ dep \in {d \in DeployInputs : d.req.signature \in signaturesFor(d.body)}

\* sendDeployResponse, after which the handler returns and the deferred
\* stream.Close() runs
sendDeployResponse(d, success, appID, errMsg) ==
  [ d EXCEPT !.pc = "done",
             !.resp = [success |-> success, app_id |-> appID, error |-> errMsg] ]

\* the steps of the handler that leave the runtime alone
onlyDeploy ==
  /\ UNCHANGED rtVars
  /\ UNCHANGED <<checker, hist, srv, disc, gate, fan>>

\* binary.Read of the header size, io.ReadFull of the header and
\* json.Unmarshal into DeployRequest, which has no signature field
ReadHeader ==
  /\ dep.pc = "header"
  /\ dep' = IF dep.header = "ok" THEN [dep EXCEPT !.pc = "create"]
            ELSE sendDeployResponse(dep, FALSE, "", dep.header)
  /\ onlyDeploy

\* receiveFile: d.storage.CreateFile(destPath)
ReceiveCreate(createOk) ==
  /\ dep.pc = "create"
  /\ dep' = IF createOk
              THEN [dep EXCEPT !.pc = "recv", !.created = TRUE, !.file = <<>>,
                               !.received = 0]
              ELSE sendDeployResponse(dep, FALSE, "", "failed to create file")
  /\ onlyDeploy

\* what stream.Read(buf) may return when avail bytes have arrived
readSizes(avail) == 1..Min(avail, BufSize)

\* one iteration of the loop of receiveFile: stream.Read returns n > 0
\* bytes, all of which are written to the file
ReceiveChunk(n) ==
  /\ dep.pc = "recv"
  /\ dep.received < dep.req.file_size
  /\ n \in readSizes(Len(dep.stream))
  /\ dep' = [dep EXCEPT
               !.file = dep.file \o SubSeq(dep.stream, 1, n),
               !.stream = SubSeq(dep.stream, n + 1, Len(dep.stream)),
               !.received = dep.received + n]
  /\ onlyDeploy

\* an iteration of the loop in which stream.Read or file.Write fails
ReceiveFail(what) ==
  /\ dep.pc = "recv"
  /\ dep.received < dep.req.file_size
  /\ dep' = sendDeployResponse(dep, FALSE, "", what)
  /\ onlyDeploy

\* variant: receiveFile returns nil whatever it has received
ReceiveEnd_noSizeCheck ==
  /\ dep.pc = "recv"
  /\ \/ dep.received >= dep.req.file_size
     \/ dep.stream = <<>> /\ dep.eof
  /\ dep' = [dep EXCEPT !.pc = "deploy"]
  /\ onlyDeploy

\* the loop of receiveFile ends: the counter has reached expectedSize, or
\* Read returned 0 bytes at the end of the stream; then the size check
ReceiveEnd ==
  /\ dep.pc = "recv"
  /\ \/ dep.received >= dep.req.file_size
     \/ dep.stream = <<>> /\ dep.eof
  /\ dep' = IF dep.received # dep.req.file_size
              THEN sendDeployResponse(dep, FALSE, "", "incomplete transfer")
              ELSE [dep EXCEPT !.pc = "deploy"]
  /\ onlyDeploy

\* the stored file is the whole archive the client meant to send
fileComplete(d) == d.file = d.body

\* the errors GetManifest can return: for the whole archive the one its
\* content leads to, for a file that is not the archive any of them. A
\* manifest that parses is returned as it is, required fields or not
getManifestErrs(d) ==
  IF ~fileComplete(d)
    THEN {"invalid gzip format", "failed to read tar",
          "failed to parse manifest", ErrInvalidManifest}
  ELSE IF d.kind = "notgzip" THEN {"invalid gzip format"}
  ELSE IF d.kind = "unparseable" THEN {"failed to parse manifest"}
  ELSE {ErrInvalidManifest}

\* manifest.yaml is in the archive and yaml.Unmarshal takes it
manifestParses(d) == d.kind \in {"ok", "badmanifest"}

\* DeployPackage, first half: pkgMgr.GetManifest on the stored file. found
\* says whether manifest.yaml is read before the file ends, which is
\* settled by the archive unless the file is only a part of it
DeployManifest(found) ==
  /\ dep.pc = "deploy"
  /\ fileComplete(dep) => (found <=> manifestParses(dep))
  /\ IF found THEN dep' = [dep EXCEPT !.pc = "unpack"]
     ELSE \E e \in getManifestErrs(dep) :
            dep' = sendDeployResponse([dep EXCEPT !.cause = e], FALSE, "",
                                      "failed to get manifest")
  /\ onlyDeploy

\* the errors Unpack can return after GetManifest has returned a manifest:
\* readManifest refuses a manifest without name, version or entrypoint,
\* its error is dropped and Unpack ends with ErrInvalidManifest
unpackErrs(d) ==
  IF ~fileComplete(d) THEN {"failed to read tar", ErrInvalidManifest}
  ELSE {ErrInvalidManifest}

\* DeployPackage, second half: pkgMgr.Unpack into apps/<app_id>. A part of
\* an archive fails on the way; a manifest without its required fields
\* fails after everything is extracted
DeployUnpack ==
  /\ dep.pc = "unpack"
  /\ IF fileComplete(dep) /\ dep.kind = "ok"
       THEN dep' = [dep EXCEPT !.pc = "start", !.appsDir = "unpacked"]
       ELSE \E e \in unpackErrs(dep) :
              dep' = sendDeployResponse(
                       [dep EXCEPT !.cause = e,
                                   !.appsDir = IF fileComplete(dep) THEN "unpacked"
                                               ELSE "partial"],
                       FALSE, "", "failed to unpack package")
  /\ onlyDeploy

\* "Auto-start if requested": d.runtime.Start(d.ctx, app), whose error is
\* only logged; then the success response
DeployFinish(a, spawnOk) ==
  /\ dep.pc = "start"
  /\ IF dep.req.auto_start
       THEN start(a, 0, dep.hc, FALSE, spawnOk)
       ELSE spawnOk /\ UNCHANGED <<apps, nextPid, procs, exitMon, hmon, stopped>>
  /\ dep' = sendDeployResponse(dep, TRUE, a, "")
  /\ lastReturn' = IF dep.req.auto_start
                     THEN returned("Start", a, startErr(a, spawnOk))
                     ELSE NoReturn
  /\ srv' = IF dep.req.auto_start /\ startErr(a, spawnOk) = "nil"
              THEN [srv EXCEPT !.cmds = @ \cup {nextPid}] ELSE srv
  /\ UNCHANGED <<mu, callers, stopWait>>
  /\ UNCHANGED <<checker, hist, disc, gate, fan>>

NextDeploy ==
  \/ ReadHeader
  \/ \E ok \in BOOLEAN : ReceiveCreate(ok)
  \/ \E n \in 1..(MaxBody + MaxExtra) : ReceiveChunk(n)
  \/ \E what \in {"failed to read chunk", "failed to write chunk"} : ReceiveFail(what)
  \/ ReceiveEnd
  \/ \E found \in BOOLEAN : DeployManifest(found)
  \/ DeployUnpack
  \/ \E a \in AppIds, ok \in BOOLEAN : DeployFinish(a, ok)

SpecDeploy == InitDeploy /\ [][NextDeploy]_vars

----------------------------------------------------------------------------
(* SpecDaemon: the list and logs handlers, Daemon.Stop *)

\* the bytes a stream takes are delivered while the host is open
written(d, resp) == IF d.host = "open" THEN resp ELSE NoResp

\* sendListResponse, after which the handler returns and the deferred
\* stream.Close() runs
sendListResponse(d, success, list, errMsg) ==
  [ d EXCEPT !.pc = "done",
             !.resp = written(d, [success |-> success, apps |-> list,
                                  error |-> errMsg]) ]

\* sendLogsResponse, after which the handler returns and the deferred
\* stream.Close() runs
sendLogsResponse(d, success, logs, errMsg) ==
  [ d EXCEPT !.pc = "done",
             !.resp = written(d, [success |-> success, logs |-> logs,
                                  error |-> errMsg]) ]

\* Runtime.List: under RLock, the pointer info.app of every record
List == {a \in AppIds : apps[a] # NoInfo}

\* the Application the pointer of record a leads to, as it is now
Application(a) == [id |-> a, status |-> apps[a].status, pid |-> apps[a].pid]

\* json.Marshal reads Status and PID through the pointer, without r.mu:
\* for a field the runtime has written since List returned, the read is
\* not ordered with the write and yields the old or the new value
marshalReads(d, a) ==
  { [id |-> a, status |-> st, pid |-> pid] :
      st \in {x.status : x \in {y \in d.seen : y.id = a}}
               \cup {apps[a].status},
      pid \in {x.pid : x \in {y \in d.seen : y.id = a}} \cup {apps[a].pid} }

\* the lists json.Marshal can produce from the pointers in d.apps
marshalled(d) ==
  { {f[a] : a \in d.apps} :
      f \in { g \in [d.apps -> UNION {marshalReads(d, a) : a \in d.apps}] :
                \A a \in d.apps : g[a] \in marshalReads(d, a) } }

\* the steps of the list and logs handlers and of Daemon.Stop, which leave
\* the runtime and the deploy handler alone
onlyDaemon ==
  /\ UNCHANGED rtVars
  /\ UNCHANGED <<checker, hist, dep, disc, gate, fan>>

\* handleListRequest: "apps, err := d.runtime.List(d.ctx)"
ListHandle ==
  /\ srv.pc = "header"
  /\ srv.proto = "list"
  /\ mu = "unlocked"
  /\ srv' = [srv EXCEPT !.pc = "listed", !.apps = List,
                        !.seen = {Application(a) : a \in List}]
  /\ onlyDaemon

\* handleListRequest: "d.sendListResponse(stream, true, apps, "")"
ListSend ==
  /\ srv.pc = "listed"
  /\ \E list \in marshalled(srv) :
       srv' = sendListResponse(srv, TRUE, list, "")
  /\ onlyDaemon

\* handleLogsRequest: binary.Read of the header size, io.ReadFull of the
\* header, json.Unmarshal into LogsRequest
LogsReadHeader ==
  /\ srv.pc = "header"
  /\ srv.proto = "logs"
  /\ srv' = IF srv.header = "ok" THEN [srv EXCEPT !.pc = "logs"]
            ELSE sendLogsResponse(srv, FALSE, <<>>, srv.header)
  /\ onlyDaemon

\* r.apps has a record for the id
exists(a) == a \in AppIds /\ apps[a] # NoInfo

\* Runtime.Logs: ErrNotFound without record; os.Open of stdout.log; without
\* follow the file is the reader, with follow the file is sought to its
\* end and the reader is a pipe fed by a goroutine
LogsOpen(openOk) ==
  /\ srv.pc = "logs"
  /\ mu = "unlocked"
  /\ srv' =
       IF ~exists(srv.req.app_id)
         THEN sendLogsResponse(srv, FALSE, <<>>, "ErrNotFound")
       ELSE IF ~openOk
         THEN sendLogsResponse(srv, FALSE, <<>>,
                IF srv.req.follow THEN "failed to open log file"
                ELSE "open stdout.log")
       ELSE [srv EXCEPT !.pc = "readall",
                        !.pipe = IF srv.req.follow THEN "open" ELSE "none"]
  /\ onlyDaemon

\* the goroutine of Logs, its first scanner loop: the n lines appended
\* since the Seek go to the pipe; then it enters its ticker loop
FollowScan(n) ==
  /\ srv.pipe = "open"
  /\ srv' = [srv EXCEPT !.pipe = "polling",
                        !.read = [i \in 1..n |-> Len(srv.log) + i]]
  /\ onlyDaemon

\* the goroutine of Logs in its ticker loop: a tick finds the scanner at
\* its end and writes nothing; "case <-ctx.Done()" returns, and the
\* deferred pw.Close() closes the pipe
FollowReturn ==
  /\ srv.pipe = "polling"
  /\ srv.ctx = "done"
  /\ srv' = [srv EXCEPT !.pipe = "closed"]
  /\ onlyDaemon

\* io.ReadAll(logsReader) can return: a file is read to its end, a pipe
\* until its writer is closed
readAllReturns(d) == d.pipe \in {"none", "closed"}

\* "Apply tail if requested": the last n lines when n > 0 and there are
\* more than n
tailLines(lines, n) ==
  IF n > 0 /\ Len(lines) > n
    THEN SubSeq(lines, Len(lines) - n + 1, Len(lines))
    ELSE lines

\* handleLogsRequest from io.ReadAll to the response
LogsReadAll(readOk) ==
  /\ srv.pc = "readall"
  /\ readAllReturns(srv)
  /\ srv.pipe = "closed" => readOk
  /\ srv' =
       IF ~readOk
         THEN sendLogsResponse(srv, FALSE, <<>>, "failed to read logs")
         ELSE sendLogsResponse(srv, TRUE,
                tailLines(IF srv.req.follow THEN srv.read ELSE srv.log,
                          srv.req.tail), "")
  /\ onlyDaemon

\* Daemon.Stop: d.cancelFunc() (the model stops the daemon between
\* deploys)
DaemonStop ==
  /\ srv.ctx = "live"
  /\ dep.pc \in {"off", "done"}
  /\ srv' = [srv EXCEPT !.ctx = "done"]
  /\ onlyDaemon

\* Daemon.Stop: d.host.Close()
HostClose ==
  /\ srv.ctx = "done"
  /\ srv.host = "open"
  /\ srv' = [srv EXCEPT !.host = "closed"]
  /\ onlyDaemon

\* os/exec, for a Cmd built by exec.CommandContext(ctx, ...) in
\* Runtime.start: once ctx is done the process is killed
CommandContextKill(p) ==
  /\ srv.ctx = "done"
  /\ p \in srv.cmds
  /\ procs[p].state = "alive"
  /\ ~procs[p].killSent
  /\ procs' = [procs EXCEPT ![p].killSent = TRUE]
  /\ lastReturn' = NoReturn
  /\ UNCHANGED <<apps, mu, nextPid, exitMon, hmon, callers, stopWait, stopped>>
  /\ UNCHANGED <<checker, hist, dep, srv, disc, gate, fan>>

\* the deploy requests of SpecDaemon: unsigned ones, on a daemon that
\* allows them
DaemonDeploys ==
  {d \in DeployInputs : d.req.signature = NoSig /\ d.allowUnsigned}

\* the list and logs requests of SpecDaemon: a list request carries no
\* header, a logs request a header with app_id, follow and tail
ServeInputs ==
  { [InitSrv EXCEPT !.pc = "header", !.proto = "list"] }
  \cup
  { [ InitSrv EXCEPT
        !.pc = "header", !.proto = "logs", !.header = h,
        !.req = [app_id |-> a, follow |-> f, tail |-> t],
        !.log = [i \in 1..n |-> i] ] :
      h \in {"ok", "short", "badjson"},
      a \in AppIds \cup {"unknown"}, f \in BOOLEAN, t \in 0..MaxLines,
      n \in 0..MaxLines }

\* one inbound stream: a deploy on a daemon that runs nothing, a list or
\* logs request on a daemon that runs nothing or, after a deploy with
\* auto_start, one child, or a deploy with auto_start on a daemon that runs
\* one child
InitDaemon ==
  /\ checker = InitChecker
  /\ hist = InitHist
  /\ mu = "unlocked"
  /\ callers = EmptyBag
  /\ stopWait = 0
  /\ stopped = [a \in AppIds |-> FALSE]
  /\ lastReturn = NoReturn
  /\ disc = InitDisc
  /\ gate = InitGate
  /\ fan = InitFan
  /\ hmon = [p \in Pids |-> NoMonitor]
  /\ \/ /\ dep \in DaemonDeploys
        /\ srv = InitSrv
        /\ apps = [a \in AppIds |-> NoInfo]
        /\ nextPid = 1
        /\ procs = [p \in Pids |-> NoProc]
        /\ exitMon = [p \in Pids |-> "none"]
     \/ /\ dep = InitDep
        /\ srv \in ServeInputs
        /\ apps = [a \in AppIds |-> NoInfo]
        /\ nextPid = 1
        /\ procs = [p \in Pids |-> NoProc]
        /\ exitMon = [p \in Pids |-> "none"]
     \/ /\ dep = InitDep
        /\ \E d \in ServeInputs : srv = [d EXCEPT !.cmds = {1}]
        /\ \E a \in AppIds :
             /\ apps = [x \in AppIds |->
                          IF x = a THEN newInfo(1, 0, NoHC, FALSE) ELSE NoInfo]
             /\ procs = [p \in Pids |->
                           IF p = 1 THEN [NoProc EXCEPT !.state = "alive", !.app = a]
                           ELSE NoProc]
        /\ nextPid = 2
        /\ exitMon = [p \in Pids |-> IF p = 1 THEN "waiting" ELSE "none"]
     \/ /\ dep \in {d \in DaemonDeploys : d.req.auto_start}
        /\ srv = [InitSrv EXCEPT !.cmds = {1}]
        /\ \E a \in AppIds :
             /\ apps = [x \in AppIds |->
                          IF x = a THEN newInfo(1, 0, NoHC, FALSE) ELSE NoInfo]
             /\ procs = [p \in Pids |->
                           IF p = 1 THEN [NoProc EXCEPT !.state = "alive", !.app = a]
                           ELSE NoProc]
        /\ nextPid = 2
        /\ exitMon = [p \in Pids |-> IF p = 1 THEN "waiting" ELSE "none"]

NextDaemon ==
  \/ NextDeploy
  \/ ListHandle
  \/ ListSend
  \/ LogsReadHeader
  \/ \E ok \in BOOLEAN : LogsOpen(ok)
  \/ \E n \in 0..1 : FollowScan(n)
  \/ FollowReturn
  \/ \E ok \in BOOLEAN : LogsReadAll(ok)
  \/ DaemonStop
  \/ HostClose
  \/ \E p \in Pids : CommandContextKill(p)
  \/ \E p \in Pids : ChildKilled(p)
  \/ \E p \in Pids, raced \in BOOLEAN : MonitorUpdate(p, raced)

SpecDaemon == InitDaemon /\ [][NextDaemon]_vars

\* Scheduling: the goroutine of a handler and the goroutine of Logs are
\* runnable goroutines and get scheduled; nothing obliges the operator to
\* stop the daemon.
FairnessDaemon ==
  /\ WF_vars(ListHandle)
  /\ WF_vars(ListSend)
  /\ WF_vars(LogsReadHeader)
  /\ WF_vars(\E ok \in BOOLEAN : LogsOpen(ok))
  /\ WF_vars(\E n \in 0..1 : FollowScan(n))
  /\ WF_vars(FollowReturn)
  /\ WF_vars(\E ok \in BOOLEAN : LogsReadAll(ok))

FairSpecDaemon == InitDaemon /\ [][NextDaemon]_vars /\ FairnessDaemon

----------------------------------------------------------------------------
(* SpecDiscovery: pkg/discovery, Service *)

\* the steps of the discovery service leave everything else alone
onlyDiscovery ==
  /\ UNCHANGED rtVars
  /\ UNCHANGED <<checker, hist, dep, srv, gate, fan>>

\* the callback c, executing in a goroutine that holds s.nodesMu or not
executing(c, holds) ==
  [cb |-> c.cb, peer |-> c.peer, n |-> c.n, holds |-> holds]

\* variant: the callback is called in the goroutine of the handler, which
\* holds s.nodesMu
goCallback_inline(d, cb, p) ==
  [ d EXCEPT !.running = @ \cup {executing([cb |-> cb, peer |-> p,
                                             n |-> Len(d.issued[p]) + 1], TRUE)},
             !.issued[p] = Append(@, cb),
             !.delivered[p] = Append(@, cb) ]

\* "go s.onNodeDiscovered(node)", "go s.onNodeLost(peerID)": a goroutine
\* that will run the callback
goCallback(d, cb, p) ==
  [ d EXCEPT !.pending = @ \cup {[cb |-> cb, peer |-> p,
                                   n |-> Len(d.issued[p]) + 1]},
             !.issued[p] = Append(@, cb) ]

\* variant: the entry of a peer that is already known is left as it is
handleAnnouncement_onlyNew(d, p) ==
  LET isNew == d.nodes[p] = NoNode
      stored == [d EXCEPT !.nodes[p] = IF isNew THEN [LastSeen |-> d.now] ELSE @,
                          !.heard[p] = d.now,
                          !.first[p] = IF isNew THEN d.now ELSE @]
  IN IF isNew /\ d.onNodeDiscovered
       THEN goCallback(stored, "discovered", p) ELSE stored

\* Service.handleAnnouncement, under s.nodesMu: a new DiscoveredNode with
\* LastSeen = time.Now() replaces the entry, and the callback is started
\* when there was none
handleAnnouncement(d, p) ==
  LET isNew == d.nodes[p] = NoNode
      stored == [d EXCEPT !.nodes[p] = [LastSeen |-> d.now],
                          !.heard[p] = d.now,
                          !.first[p] = IF isNew THEN d.now ELSE @]
  IN IF isNew /\ d.onNodeDiscovered
       THEN goCallback(stored, "discovered", p) ELSE stored

\* one iteration of listenLoop. kind: own (msg.ReceivedFrom is this host),
\* badjson, badpeer (peer.Decode fails), ok (an announcement that names p)
Listen(kind, p) ==
  /\ disc.ctx = "live"
  /\ kind = "ok" => disc.nodesMu = "free"
  /\ disc' = IF kind = "ok"
               THEN [handleAnnouncement(disc, p) EXCEPT !.nodesMu = "listenLoop"]
               ELSE disc
  /\ onlyDiscovery

\* variant: an entry is stale from NodeTimeout on
stale_atTimeout(node, now) == now - node.LastSeen >= NodeTimeout

\* now.Sub(node.LastSeen) > NodeTimeout
stale(node, now) == now - node.LastSeen > NodeTimeout

\* the body of the if in cleanupStaleNodes: delete, then the callback
evict(d, p) ==
  LET gone == [d EXCEPT !.nodes[p] = NoNode, !.heard[p] = NoTime,
                        !.first[p] = NoTime]
  IN IF d.onNodeLost THEN goCallback(gone, "lost", p) ELSE gone

RECURSIVE evictAll(_, _)
evictAll(d, S) ==
  IF S = {} THEN d
  ELSE LET p == CHOOSE x \in S : TRUE IN evictAll(evict(d, p), S \ {p})

\* Service.cleanupStaleNodes, under s.nodesMu
cleanupStaleNodes(d) ==
  evictAll(d, {p \in Peers : d.nodes[p] # NoNode /\ stale(d.nodes[p], d.now)})

\* the period of the ticker of cleanupLoop
sweepPeriod == NodeTimeout \div 2

\* cleanupLoop: "case <-ticker.C"; the ticker fires every sweepPeriod and
\* the loop may take the tick late
CleanupTick ==
  /\ disc.ctx = "live"
  /\ disc.now >= disc.nextSweep
  /\ disc.nodesMu = "free"
  /\ disc' = [cleanupStaleNodes(disc) EXCEPT
                !.nodesMu = "cleanupLoop",
                !.lastSweep = disc.now,
                !.nextSweep = ((disc.now \div sweepPeriod) + 1) * sweepPeriod]
  /\ onlyDiscovery

\* "defer s.nodesMu.Unlock()" of handleAnnouncement and cleanupStaleNodes:
\* the handler returns, which it cannot while it is inside a callback
Unlock ==
  /\ disc.nodesMu # "free"
  /\ \A c \in disc.running : ~c.holds
  /\ disc' = [disc EXCEPT !.nodesMu = "free"]
  /\ onlyDiscovery

\* a goroutine started for a callback begins to run it
RunCallback(c) ==
  /\ c \in disc.pending
  /\ disc' = [disc EXCEPT !.pending = @ \ {c},
                          !.running = @ \cup {executing(c, FALSE)},
                          !.delivered[c.peer] = Append(@, c.cb)]
  /\ onlyDiscovery

\* a callback returns; one that calls GetNodes or GetNode (getNodes) has to
\* take s.nodesMu.RLock() on its way
CallbackReturn(c, getNodes) ==
  /\ c \in disc.running
  /\ getNodes => disc.nodesMu = "free"
  /\ disc' = [disc EXCEPT !.running = @ \ {c}]
  /\ onlyDiscovery

\* time passes; the handlers hold s.nodesMu for no time that counts
ClockTick ==
  /\ disc.nodesMu = "free"
  /\ disc.now + ClockStep <= MaxTime
  /\ disc' = [disc EXCEPT !.now = @ + ClockStep]
  /\ onlyDiscovery

\* Service.Stop: s.cancel(), after which the loops return
ServiceStop ==
  /\ disc.ctx = "live"
  /\ disc' = [disc EXCEPT !.ctx = "done"]
  /\ onlyDiscovery

\* a service on which SetOnNodeDiscovered and SetOnNodeLost were called or
\* not, just started
InitDiscovery ==
  /\ RtInit
  /\ checker = InitChecker
  /\ hist = InitHist
  /\ dep = InitDep
  /\ srv = InitSrv
  /\ gate = InitGate
  /\ fan = InitFan
  /\ \E a \in BOOLEAN, b \in BOOLEAN :
       disc = [InitDisc EXCEPT !.onNodeDiscovered = a, !.onNodeLost = b]

NextDiscovery ==
  \/ \E kind \in {"own", "badjson", "badpeer", "ok"}, p \in Peers : Listen(kind, p)
  \/ CleanupTick
  \/ Unlock
  \/ \E c \in disc.pending : RunCallback(c)
  \/ \E c \in disc.running, getNodes \in BOOLEAN : CallbackReturn(c, getNodes)
  \/ ClockTick
  \/ ServiceStop

SpecDiscovery == InitDiscovery /\ [][NextDiscovery]_vars

----------------------------------------------------------------------------
(* SpecGater: NewHost and connectionGater *)

\* the strings a configuration lists: the ids of the peers, and one that
\* is not a peer id
PeerStrings == Peers \cup {"not-a-peer-id"}

\* peer.Decode: the peer id a string stands for (ok), or an error
Decode(str) ==
  IF str \in Peers THEN [ok |-> TRUE, id |-> str] ELSE [ok |-> FALSE, id |-> ""]

\* newConnectionGater: the map holds the entries that decode, the others
\* are logged and skipped
newConnectionGater(trustedPeerIDs) ==
  [ installed |-> TRUE,
    trustedPeers |-> { Decode(trustedPeerIDs[i]).id :
                         i \in {j \in 1..Len(trustedPeerIDs) :
                                  Decode(trustedPeerIDs[j]).ok} } ]

\* InterceptPeerDial
InterceptPeerDial(g, p) ==
  IF Cardinality(g.trustedPeers) = 0 THEN TRUE
  ELSE p \in g.trustedPeers

\* InterceptAddrDial
InterceptAddrDial == TRUE

\* InterceptAccept
InterceptAccept == TRUE

\* InterceptSecured
InterceptSecured(g, p) ==
  IF Cardinality(g.trustedPeers) = 0 THEN TRUE
  ELSE p \in g.trustedPeers

\* InterceptUpgraded
InterceptUpgraded == TRUE

\* the steps of the host leave everything else alone
onlyGater ==
  /\ UNCHANGED rtVars
  /\ UNCHANGED <<checker, hist, dep, srv, disc, fan>>

\* NewHost: "Add connection gating if trusted peers are specified"
NewHost ==
  /\ gate.pc = "config"
  /\ gate' = [gate EXCEPT
                !.pc = "host",
                !.gater = IF Len(gate.TrustedPeers) > 0
                            THEN newConnectionGater(gate.TrustedPeers)
                            ELSE @]
  /\ onlyGater

\* what libp2p asks the gater of a host on the way of a connection: for a
\* dial InterceptPeerDial, InterceptAddrDial, InterceptSecured and
\* InterceptUpgraded, for an inbound connection InterceptAccept,
\* InterceptSecured and InterceptUpgraded; a host without gater admits
admits(g, dir, p) ==
  IF ~g.installed THEN TRUE
  ELSE IF dir = "outbound"
    THEN InterceptPeerDial(g, p) /\ InterceptAddrDial
           /\ InterceptSecured(g, p) /\ InterceptUpgraded
  ELSE InterceptAccept /\ InterceptSecured(g, p) /\ InterceptUpgraded

\* the host dials p, or p connects to the host
Connection(dir, p) ==
  /\ gate.pc = "host"
  /\ gate' = [gate EXCEPT
                !.conns = IF admits(gate.gater, dir, p)
                            THEN @ \cup {[dir |-> dir, peer |-> p]} ELSE @,
                !.last = [dir |-> dir, peer |-> p,
                          allowed |-> admits(gate.gater, dir, p)]]
  /\ onlyGater

RECURSIVE Lists(_, _)
Lists(S, n) ==
  IF n = 0 THEN {<<>>}
  ELSE LET shorter == Lists(S, n - 1)
       IN shorter \cup {Append(l, x) : l \in shorter, x \in S}

\* a host configuration with up to MaxTrusted entries in trusted_peers
InitGater ==
  /\ RtInit
  /\ checker = InitChecker
  /\ hist = InitHist
  /\ dep = InitDep
  /\ srv = InitSrv
  /\ disc = InitDisc
  /\ fan = InitFan
  /\ \E l \in Lists(PeerStrings, MaxTrusted) :
       gate = [InitGate EXCEPT !.pc = "config", !.TrustedPeers = l]

NextGater ==
  \/ NewHost
  \/ \E dir \in {"outbound", "inbound"}, p \in Peers : Connection(dir, p)

SpecGater == InitGater /\ [][NextGater]_vars

----------------------------------------------------------------------------
(* SpecRun: the run command of the controller, "Deploy package to all
   target nodes" *)

\* the steps of the command leave everything else alone
onlyRun ==
  /\ UNCHANGED rtVars
  /\ UNCHANGED <<checker, hist, dep, srv, disc, gate>>

\* the goroutine of target k: common.DeployPackage returns the app id of
\* the response (ok) or an error, and the result goes to the channel,
\* which has room for all of them
\* variant: a channel with room for one result
resultsCap_one(f) == 1

\* make(chan deploymentResult, len(targetPeerIDs))
resultsCap(f) == Len(f.targetPeerIDs)

DeployGoroutine(k, ok) ==
  /\ fan.pc = "deploying"
  /\ k \in fan.running
  /\ Len(fan.results) < resultsCap(fan)
  /\ fan' = [fan EXCEPT
               !.running = @ \ {k},
               !.results = Append(@, [peerID |-> fan.targetPeerIDs[k],
                                      appID |-> IF ok THEN "a1" ELSE "",
                                      err |-> IF ok THEN "nil"
                                              ELSE "deployment failed"]),
               !.succeeded = IF ok THEN @ \cup {k} ELSE @,
               !.failed = IF ok THEN @ ELSE @ \cup {k}]
  /\ onlyRun

\* "Collect deployment results": one iteration of the loop
Collect ==
  /\ fan.pc = "deploying"
  /\ fan.i < Len(fan.targetPeerIDs)
  /\ fan.results # <<>>
  /\ LET result == Head(fan.results)
     IN fan' = [fan EXCEPT
                  !.results = Tail(@),
                  !.i = @ + 1,
                  !.deployErrors =
                     IF result.err # "nil"
                       THEN Append(@, [node |-> result.peerID, err |-> result.err])
                       ELSE @,
                  !.deployments =
                     IF result.err # "nil" THEN @
                     ELSE [@ EXCEPT ![result.peerID] = result.appID]]
  /\ onlyRun

\* variant: the deploy fails as soon as one target has failed
deployFailed_anyError(f) == Len(f.deployErrors) > 0

\* len(deployments) == 0
deployFailed(f) == \A n \in Nodes : f.deployments[n] = NoApp

\* after the loop: "failed to deploy to any nodes", or on to the logs
RunReturn ==
  /\ fan.pc = "deploying"
  /\ fan.i = Len(fan.targetPeerIDs)
  /\ fan' = [fan EXCEPT
               !.pc = "returned",
               !.ret = IF deployFailed(fan) THEN "failed to deploy to any nodes"
                       ELSE "nil"]
  /\ onlyRun

\* the targets: the node given with --node, or the peers of the host, of
\* which there is at least one
Targets ==
  { l \in Lists(Nodes, MaxTargets) :
      /\ l # <<>>
      /\ \A a \in 1..Len(l), b \in 1..Len(l) : l[a] = l[b] => a = b }

\* the goroutines are started
InitRun ==
  /\ RtInit
  /\ checker = InitChecker
  /\ hist = InitHist
  /\ dep = InitDep
  /\ srv = InitSrv
  /\ disc = InitDisc
  /\ gate = InitGate
  /\ \E l \in Targets :
       fan = [InitFan EXCEPT !.pc = "deploying", !.targetPeerIDs = l,
                             !.running = 1..Len(l)]

NextRun ==
  \/ \E k \in 1..MaxTargets, ok \in BOOLEAN : DeployGoroutine(k, ok)
  \/ Collect
  \/ RunReturn

SpecRun == InitRun /\ [][NextRun]_vars

\* the command's goroutine is scheduled whenever it can receive or return
FairnessRun ==
  /\ WF_vars(Collect)
  /\ WF_vars(RunReturn)

FairSpecRun == InitRun /\ [][NextRun]_vars /\ FairnessRun

----------------------------------------------------------------------------
(* Properties of the runtime supervisor *)

\* the record of a is known and says st
hasStatus(a, st) == apps[a] # NoInfo /\ apps[a].status = st

\* the child p of a has exited and its exit monitor has not yet taken r.mu
exitPending(a, p) ==
  /\ procs[p].app = a
  /\ procs[p].state = "dead"
  /\ exitMon[p] = "waiting"

\* C1 as stated: whenever the status of an app is running, its pid is
\* positive and names a live child process.
C1_RunningHasLiveChild ==
  \A a \in AppIds :
    hasStatus(a, AppStatusRunning) =>
      /\ apps[a].pid \in Pids
      /\ procs[apps[a].pid].state = "alive"

\* C1, as the code keeps it: whenever the status of an app is running, its
\* pid is positive and names a child spawned for that app which is alive, or
\* which has exited and whose exit monitor has not yet recorded the exit.
C1_RunningHasChild ==
  \A a \in AppIds :
    hasStatus(a, AppStatusRunning) =>
      /\ apps[a].pid \in Pids
      /\ procs[apps[a].pid].app = a
      /\ \/ procs[apps[a].pid].state = "alive"
         \/ exitPending(a, apps[a].pid)

\* the child of a running app has exited and the record still says running
C1_ExitNotYetObserved ==
  \E a \in AppIds :
    /\ hasStatus(a, AppStatusRunning)
    /\ apps[a].pid \in Pids
    /\ exitPending(a, apps[a].pid)

\* the record of a says the child is gone
exitRecorded(a) ==
  /\ apps[a] # NoInfo
  /\ apps[a].status \in {AppStatusStopped, AppStatusFailed}
  /\ apps[a].pid = 0

\* C2: whenever the child of a running app has exited, the supervisor
\* eventually sets the status of the app to stopped or failed and its pid
\* to 0.
C2_ExitObserved ==
  \A a \in AppIds, p \in Pids :
    (hasStatus(a, AppStatusRunning) /\ apps[a].pid = p /\ procs[p].state = "dead")
      ~> exitRecorded(a)

\* the exit monitor of the latest child has recorded a failed exit, which
\* only an exit monitor writes
C2_MonitorRecordedExit ==
  \E a \in AppIds, p \in Pids :
    /\ procs[p].app = a
    /\ exitMon[p] = "done"
    /\ nextPid = p + 1
    /\ exitRecorded(a)
    /\ apps[a].status = AppStatusFailed

\* C3: once Stop has returned nil the status is stopped and the pid 0, and
\* no step other than a start moves the status away from stopped.
C3_StoppedUntilStart ==
  [][ \A a \in AppIds :
        stopped[a] =>
          /\ apps[a].status = AppStatusStopped
          /\ apps'[a].status \in
               {AppStatusStopped, AppStatusStarting, AppStatusRunning} ]_vars

\* a step in which the health monitor of p ran a check and a goroutine
\* calling Restart was spawned
restartIssuedBy(p) ==
  /\ hmon[p].state = "running"
  /\ hmon'[p].state = "running"
  /\ hmon'[p].chk # hmon[p].chk
  /\ BagCardinality(callers') = BagCardinality(callers) + 1

\* C7: a health monitor issues Restart only when the consecutive-failure
\* counter of its checker has reached the configured retries.
C7_RestartOnlyAtThreshold ==
  [][ \A p \in Pids :
        restartIssuedBy(p) =>
          hmon'[p].chk.consecutiveFails >= hmon'[p].chk.config.Retries ]_vars

\* C10: a Stop that went through SIGTERM and the select returns at most the
\* grace period after it was called, leaving status stopped and pid 0.
C10_StopWithinGrace ==
  [][ \A cl \in DOMAIN callers :
        (cl.pc = "stop_wait" /\ mu = "locked" /\ mu' = "unlocked") =>
          /\ cl.elapsed <= GraceSeconds
          /\ apps'[cl.app].status = AppStatusStopped
          /\ apps'[cl.app].pid = 0 ]_vars

\* the step is one in which call(a) returned
justReturned(call, a) ==
  /\ lastReturn'.call = call
  /\ lastReturn'.app = a

\* C11: a Stop of an app whose status is stopped returns AppNotRunning and
\* leaves the status, the pid, the health monitors and the child processes
\* as they were.
C11_StopOfStoppedHasNoEffect ==
  [][ \A a \in AppIds :
        (hasStatus(a, AppStatusStopped) /\ justReturned("Stop", a)) =>
          /\ lastReturn'.err = "ErrAppNotRunning"
          /\ UNCHANGED <<apps, procs, hmon, exitMon, nextPid>> ]_vars

\* a Stop has returned nil and the next Stop of the app ErrAppNotRunning
C11_SecondStopRefused ==
  \E a \in AppIds :
    /\ lastReturn = returned("Stop", a, "ErrAppNotRunning")
    /\ stopped[a]
    /\ hasStatus(a, AppStatusStopped)

\* C12: a Start of an app whose record says running returns
\* AppAlreadyRunning, spawns nothing and leaves the record as it was; a
\* Start of an app without record, or whose record does not say running,
\* is not refused so, and when it returns nil the record says running
\* with the pid of the child it spawned.
C12_StartRefusedIffRunning ==
  [][ \A a \in AppIds :
        justReturned("Start", a) =>
          IF hasStatus(a, AppStatusRunning)
            THEN /\ lastReturn'.err = "ErrAppAlreadyRunning"
                 /\ UNCHANGED <<apps, procs, hmon, exitMon, nextPid>>
            ELSE /\ lastReturn'.err # "ErrAppAlreadyRunning"
                 /\ lastReturn'.err = "nil" =>
                      /\ nextPid' = nextPid + 1
                      /\ apps'[a].status = AppStatusRunning
                      /\ apps'[a].pid = nextPid
                      /\ procs'[nextPid].state = "alive" ]_vars

\* a Start of a running app was refused
C12_StartOfRunningRefused ==
  \E a \in AppIds :
    /\ lastReturn = returned("Start", a, "ErrAppAlreadyRunning")
    /\ hasStatus(a, AppStatusRunning)
    /\ procs[apps[a].pid].state = "alive"

\* the goroutine cl has taken the step
moved(cl) == CopiesIn(cl, callers') < CopiesIn(cl, callers)

\* C13: Restart reads the stored auto_restart flag, calls Stop and goes on
\* when Stop returns nil or AppNotRunning, and then starts the app with
\* the flag it read: no step of a Restart changes the flag of the record
\* except the start that stores a new record, which stores the flag read.
C13_RestartKeepsAutoRestart ==
  [][ \A cl \in DOMAIN callers :
        (cl.op = "Restart" /\ moved(cl) /\ apps[cl.app] # NoInfo) =>
          /\ cl.pc = "r_read1" =>
                BagIn(enterStop([cl EXCEPT !.auto = apps[cl.app].autoRestart]),
                      callers')
          /\ (cl.pc = "stop_lock" /\ justReturned("Stop", cl.app)) =>
                /\ lastReturn'.err = "ErrAppNotRunning"
                /\ BagIn([cl EXCEPT !.pc = "r_read2", !.elapsed = 0], callers')
          /\ apps'[cl.app].autoRestart =
                IF cl.pc = "r_start" /\ lastReturn'.err = "nil"
                  THEN cl.auto ELSE apps[cl.app].autoRestart ]_vars

\* a Restart of an app with auto_restart has started it again, the flag
\* still set
C13_RestartedWithFlag ==
  \E a \in AppIds :
    /\ lastReturn = returned("Restart", a, "nil")
    /\ hasStatus(a, AppStatusRunning)
    /\ apps[a].autoRestart
    /\ apps[a].pid > 1

\* the step is the one in which the exit monitor of child p records the
\* exit, and it finds the record of its app running with pid p
recordsExitOf(p) ==
  /\ exitMon[p] = "waiting"
  /\ exitMon'[p] = "done"
  /\ hasStatus(procs[p].app, AppStatusRunning)
  /\ apps[procs[p].app].pid = p

\* C27: when the exit of the child of a running app is recorded, the
\* status becomes stopped if the child ended with exit code 0 and failed
\* otherwise, and the pid 0.
C27_ExitStatusRecorded ==
  [][ \A p \in Pids :
        recordsExitOf(p) =>
          /\ apps'[procs[p].app].status =
                IF procs[p].exitOk THEN AppStatusStopped ELSE AppStatusFailed
          /\ apps'[procs[p].app].pid = 0 ]_vars

\* the exit monitor of the latest child has recorded an exit with code 0:
\* the status is stopped and no Stop has made it so
C27_CleanExitRecorded ==
  \E a \in AppIds, p \in Pids :
    /\ procs[p].app = a
    /\ exitMon[p] = "done"
    /\ nextPid = p + 1
    /\ hasStatus(a, AppStatusStopped)
    /\ apps[a].pid = 0
    /\ ~stopped[a]

\* cl is a Restart called by the onUnhealthy closure for an app with
\* auto_restart, and the step is one of its own
autoRestartStep(cl) ==
  /\ cl.op = "Restart"
  /\ cl.by = "onUnhealthy"
  /\ cl.auto
  /\ moved(cl)

\* C28: when the health monitor has reported a running app with
\* auto_restart unhealthy, the Restart it calls takes the status of the
\* record from running to restarting before the app is started again.
C28_RestartPassesThroughRestarting ==
  [][ \A cl \in DOMAIN callers :
        ( /\ autoRestartStep(cl)
          /\ hasStatus(cl.app, AppStatusRunning)
          /\ ~(apps'[cl.app].status = AppStatusRunning) ) =>
            apps'[cl.app].status = AppStatusRestarting ]_vars

\* the step sends SIGTERM or SIGKILL to child p
signalled(p) ==
  \/ ~procs[p].termSent /\ procs'[p].termSent
  \/ ~procs[p].killSent /\ procs'[p].killSent

\* the step spawns a child (and opens its log files)
spawned == nextPid' = nextPid + 1

\* C30: r.mu is not held while a child is spawned or signalled: a step of
\* the runtime that spawns or signals a child starts with r.mu free and
\* leaves it free.
C30_NoProcessCallUnderMutex ==
  [][ (spawned \/ \E p \in Pids : signalled(p)) =>
        (mu = "unlocked" /\ mu' = "unlocked") ]_vars

\* the step is one of the exit monitor of child p
exitMonitorStep(p) == exitMon[p] = "waiting" /\ exitMon'[p] = "done"

\* the step is an iteration of the health monitor of incarnation p
healthMonitorStep(p) ==
  /\ hmon[p].state = "running"
  /\ hmon'[p].state = "running"
  /\ hmon'[p].chk # hmon[p].chk

\* C31: the exit monitor takes r.mu, calls no runtime method and releases
\* it; the health monitor does not touch r.mu, and the Restart it calls
\* runs in a goroutine of its own that starts outside the lock; so r.mu
\* is only ever held across steps by a Stop in its select, which releases
\* it, and nothing deadlocks on it.
C31_MonitorsCallOutsideMutex ==
  [][ /\ \A p \in Pids :
           exitMonitorStep(p) =>
             (mu = "unlocked" /\ mu' = "unlocked" /\ callers' = callers)
      /\ \A p \in Pids :
           healthMonitorStep(p) =>
             /\ mu' = mu
             /\ \A cl \in DOMAIN callers' :
                  CopiesIn(cl, callers') > CopiesIn(cl, callers) =>
                    (cl.op = "Restart" /\ cl.pc = "r_read1")
      /\ mu' = "locked" =>
           \E cl \in DOMAIN callers' : cl.pc = "stop_wait" ]_vars

\* the exit monitor of a child has recorded its exit, and a Restart called
\* by the onUnhealthy closure is under way
C31_BothMonitorsActed ==
  /\ \E p \in Pids : exitMon[p] = "done"
  /\ \E cl \in DOMAIN callers : cl.by = "onUnhealthy" /\ cl.pc = "r_read2"

\* C34: the exit monitor of a child leaves alone the record and the health
\* monitor of a later incarnation of the app: when the record holds the
\* pid of a later child, the monitor's step changes neither the record nor
\* any health monitor.
C34_OldMonitorLeavesNewIncarnation ==
  [][ \A p \in Pids :
        ( /\ exitMonitorStep(p)
          /\ apps[procs[p].app] # NoInfo
          /\ apps[procs[p].app].pid > p ) =>
            /\ apps'[procs[p].app] = apps[procs[p].app]
            /\ hmon' = hmon ]_vars

\* the live children of app a
liveChildren(a) == {p \in Pids : procs[p].app = a /\ procs[p].state = "alive"}

\* C35: at any time an app has at most one live child.
C35_OneLiveChild ==
  \A a \in AppIds : Cardinality(liveChildren(a)) <= 1

\* the health monitors that are active for app a
activeMonitors(a) == {p \in Pids : hmon[p].state = "running" /\ hmon[p].app = a}

\* C36 as stated: whenever the app table can be read (r.mu is free), a
\* running app whose manifest declares a health check has exactly one
\* active health monitor, the one started for its current pid, which
\* checks that pid.
C36_OneMonitorPerRunningApp ==
  \A a \in AppIds :
    (mu = "unlocked" /\ hasStatus(a, AppStatusRunning) /\ apps[a].hc # NoHC) =>
      /\ activeMonitors(a) = {apps[a].pid}
      /\ hmon[apps[a].pid].chk.pid = apps[a].pid

\* C36, as the code keeps it: the same for a running app whose child is
\* alive; and no app ever has more than one active health monitor, nor one
\* that checks another pid than the one it was started for.
C36_OneMonitorPerLiveApp ==
  \A a \in AppIds :
    /\ ( /\ mu = "unlocked"
         /\ hasStatus(a, AppStatusRunning)
         /\ apps[a].hc # NoHC
         /\ procs[apps[a].pid].state = "alive" ) =>
           activeMonitors(a) = {apps[a].pid}
    /\ Cardinality(activeMonitors(a)) <= 1
    /\ \A p \in activeMonitors(a) : hmon[p].chk.pid = p

\* the second incarnation of an app is running with its own health monitor,
\* the monitor of the first having been cancelled
C36_SecondIncarnationMonitored ==
  \E a \in AppIds :
    /\ mu = "unlocked"
    /\ hasStatus(a, AppStatusRunning)
    /\ apps[a].pid = 2
    /\ procs[2].state = "alive"
    /\ hmon[1].state = "none"
    /\ procs[1].app = a
    /\ exitMon[1] = "done"
    /\ activeMonitors(a) = {2}

\* C37: no record is left in status starting once the call of start that
\* wrote it has returned; start runs under r.mu from entry to return, so
\* no state between two steps shows a record in status starting.
C37_NoRecordLeftStarting ==
  \A a \in AppIds : ~hasStatus(a, AppStatusStarting)

\* C38: when a Stop that went through SIGTERM and the select returns nil,
\* the child it stopped has terminated.
C38_StoppedChildHasTerminated ==
  [][ \A cl \in DOMAIN callers :
        (cl.pc = "stop_wait" /\ mu = "locked" /\ mu' = "unlocked") =>
          procs'[apps[cl.app].pid].state = "dead" ]_vars

----------------------------------------------------------------------------
(* Properties of the health checker *)

\* the last iteration of the loop completed a check
checkCompleted == hist.probe \in {"healthy", "unhealthy"}

----------------------------------------------------------------------------
(* Properties of the deploy handler *)

\* some trusted key verifies the request's signature over the archive
trustedSignature(d) ==
  \E k \in TrustSet : VerifyFile(d.body, d.req.signature, k) = "nil"

\* the handler has written nothing and registered nothing
nothingStored(d) ==
  /\ ~d.created
  /\ d.appsDir = "empty"
  /\ \A a \in AppIds : apps[a] = NoInfo

\* if the handler has replied, it has refused with err
refusedWith(d, err) ==
  d.resp # NoResp => (~d.resp.success /\ d.resp.error = err)

\* C4: a request whose signature no trusted key verifies is refused with
\* InvalidSignature before any file is written, and no app record is made.
C4_InvalidSignatureRefused ==
  (dep.pc \notin {"off", "header"} /\ dep.header = "ok"
     /\ dep.req.signature # NoSig /\ ~trustedSignature(dep)) =>
    /\ nothingStored(dep)
    /\ refusedWith(dep, ErrInvalidSignature)

\* C5: when signed packages are required, a request without signature is
\* refused with PackageNotSigned and nothing is created under apps/.
C5_UnsignedRefused ==
  (dep.pc \notin {"off", "header"} /\ dep.header = "ok"
     /\ dep.req.signature = NoSig /\ ~dep.allowUnsigned) =>
    /\ dep.appsDir = "empty"
    /\ refusedWith(dep, ErrPackageNotSigned)

\* C6: the bytes written to packages/<file_name> are the next file_size
\* bytes of the stream: never more than file_size, always a prefix of
\* what was sent, and all file_size bytes once receiveFile has succeeded.
C6_ExactlyDeclaredBytes ==
  dep.created =>
    /\ Len(dep.file) <= dep.req.file_size
    /\ dep.file = SubSeq(sent(dep), 1, Len(dep.file))
    /\ dep.pc \in {"deploy", "unpack", "start"} =>
         dep.file = SubSeq(sent(dep), 1, dep.req.file_size)

\* the client has sent fewer bytes than it declared and closed its side
shortPayload(d) ==
  d.header = "ok" /\ d.eof /\ Len(sent(d)) < d.req.file_size

\* C16: when the stream ends before file_size bytes have arrived, the
\* handler does not go on to deploy the file, creates nothing under apps/
\* and no app record, and its reply, once sent, says success=false.
C16_ShortPayloadRejected ==
  shortPayload(dep) =>
    /\ dep.pc \notin {"deploy", "unpack", "start"}
    /\ dep.appsDir = "empty"
    /\ \A a \in AppIds : apps[a] = NoInfo
    /\ dep.resp # NoResp => ~dep.resp.success

\* every byte of a short payload was received, the stream ended, and the
\* handler has answered "incomplete transfer"
C16_IncompleteTransfer ==
  /\ shortPayload(dep)
  /\ dep.stream = <<>>
  /\ dep.file = sent(dep)
  /\ dep.received > 0
  /\ dep.pc = "done"
  /\ dep.resp = [success |-> FALSE, app_id |-> "", error |-> "incomplete transfer"]

\* C17: when the client sends more bytes than the declared file_size, the
\* reply of the handler says success=false.
C17_LongPayloadRejected ==
  (dep.header = "ok" /\ Len(sent(dep)) > dep.req.file_size
     /\ dep.resp # NoResp) =>
    ~dep.resp.success

\* C18: a request that declares a file_size above the maximum is refused
\* and nothing of its body is stored: packages/<file_name> is not created.
C18_OversizeRejected ==
  (dep.header = "ok" /\ dep.pc # "header"
     /\ dep.req.file_size > maxFileSize) =>
    /\ ~dep.created
    /\ dep.file = <<>>
    /\ dep.resp # NoResp => ~dep.resp.success

\* C20: a deploy with auto_start that is answered with success=true and an
\* app id has left a record for that id with status running and pid > 0.
C20_StartedWhenAcknowledged ==
  (dep.resp # NoResp /\ dep.resp.success /\ dep.req.auto_start) =>
    /\ dep.resp.app_id \in AppIds
    /\ hasStatus(dep.resp.app_id, AppStatusRunning)
    /\ apps[dep.resp.app_id].pid > 0

\* DeployPackage was called on the whole archive and has returned
deployPackageReturned(d) ==
  /\ d.pc = "done"
  /\ fileComplete(d)
  /\ d.resp.success \/ d.cause # ""

\* the archive has no manifest.yaml, one that does not parse, or one
\* without name, version or entrypoint
invalidManifest(d) == d.kind \in {"nomanifest", "unparseable", "badmanifest"}

\* C21: the deploy of an archive without a parseable manifest.yaml, or
\* with a manifest that lacks a required field, fails with
\* ErrInvalidManifest, and no app record is created or started.
C21_InvalidManifestRefused ==
  (deployPackageReturned(dep) /\ invalidManifest(dep)) =>
    /\ ~dep.resp.success
    /\ dep.cause = ErrInvalidManifest
    /\ \A a \in AppIds : apps[a] = NoInfo
    /\ \A p \in Pids : procs[p].state = "none"

----------------------------------------------------------------------------
(* Properties of the daemon *)

\* C14: no child started under d.ctx is signalled or ends because d.ctx is
\* cancelled. SpecDaemon calls no Stop and its programs do not end on
\* their own, so every such child is alive and has no signal pending.
C14_CancelLeavesChildren ==
  \A p \in srv.cmds :
    /\ procs[p].state = "alive"
    /\ ~procs[p].termSent
    /\ ~procs[p].killSent

\* C15: every logs request is eventually answered with a LogsResponse,
\* unless the host is closed first.
C15_LogsAnswered ==
  (srv.proto = "logs" /\ srv.pc = "header")
    ~> (srv.resp # NoResp \/ srv.host = "closed")

\* the deploy handler has met no error before "Auto-start if requested"
deployStagesOk(d) ==
  /\ d.header = "ok"
  /\ d.created
  /\ d.received = d.req.file_size
  /\ fileComplete(d)
  /\ d.kind = "ok"
  /\ d.appsDir = "unpacked"

\* a refusal: success=false with the error text and nothing else
refusal(resp) == ~resp.success /\ resp.error # ""

\* C19: a handler that has met an error answers success=false with the
\* text of the error and returns, which closes the stream: the deploy
\* handler for an error of any of its stages and for an error returned by
\* Runtime.Start, the logs handler for a bad header and an unknown app, and
\* a response carries an error text exactly when it says success=false.
C19_ErrorsAnswered ==
  /\ (dep.pc = "done" /\ ~deployStagesOk(dep)) =>
        (dep.resp # NoResp /\ refusal(dep.resp) /\ dep.resp.app_id = "")
  /\ (dep.pc = "done" /\ lastReturn.call = "Start" /\ lastReturn.err # "nil") =>
        (dep.resp # NoResp /\ refusal(dep.resp))
  /\ dep.resp # NoResp => (dep.pc = "done" /\ (dep.resp.success <=> dep.resp.error = ""))
  /\ (srv.pc = "done" /\ srv.resp # NoResp /\ srv.proto = "logs"
        /\ (srv.header # "ok" \/ ~exists(srv.req.app_id))) =>
        (refusal(srv.resp) /\ srv.resp.logs = <<>>)
  /\ srv.resp # NoResp => (srv.pc = "done" /\ (srv.resp.success <=> srv.resp.error = ""))

\* C39: a deploy with auto_start whose Start found the app id running is
\* answered with success=false.
C39_DuplicateRefused ==
  ( /\ dep.resp # NoResp
    /\ dep.req.auto_start
    /\ lastReturn.call = "Start"
    /\ lastReturn.err = "ErrAppAlreadyRunning" ) =>
      ~dep.resp.success

\* C29: what List hands to its caller is a snapshot: while the list
\* handler holds the list, the status and pid it can read through it are
\* those of the moment List returned, and the list it serializes without
\* the mutex is that snapshot.
C29_ListIsSnapshot ==
  /\ srv.pc = "listed" => {Application(a) : a \in srv.apps} = srv.seen
  /\ (srv.proto = "list" /\ srv.resp # NoResp) => srv.resp.apps = srv.seen

----------------------------------------------------------------------------
(* Properties of the discovery service *)

\* C22: once an announcement of a peer has been processed, and until the
\* peer is evicted, the node map has an entry for the peer whose LastSeen
\* is not before the time its latest announcement was processed, and not
\* after the present.
C22_LastSeenFollowsAnnouncements ==
  \A p \in Peers :
    disc.heard[p] # NoTime =>
      /\ disc.nodes[p] # NoNode
      /\ disc.nodes[p].LastSeen >= disc.heard[p]
      /\ disc.nodes[p].LastSeen <= disc.now

\* a further announcement of a known peer has just been processed and has
\* moved LastSeen to the present
C22_SeenAgain ==
  \E p \in Peers :
    /\ disc.first[p] # NoTime
    /\ disc.first[p] < disc.heard[p]
    /\ disc.heard[p] = disc.now
    /\ disc.nodes[p] = [LastSeen |-> disc.now]

\* the step is a run of cleanupStaleNodes
sweeps == disc'.nextSweep # disc.nextSweep

\* the step has started the callback cb for p
starts(cb, p) ==
  /\ disc'.issued[p] = Append(disc.issued[p], cb)
  /\ \E c \in disc'.pending \ disc.pending : c.cb = cb /\ c.peer = p

\* C23: an entry leaves the node map only in a step whose time is more
\* than NodeTimeout after its LastSeen, on_lost (when set) is started for
\* it in that step, and a run of the sweeper removes every such entry.
C23_SweeperRemovesExactlyStale ==
  [][ \A p \in Peers :
        disc.nodes[p] # NoNode =>
          /\ disc'.nodes[p] = NoNode =>
                /\ sweeps
                /\ disc.now - disc.nodes[p].LastSeen > NodeTimeout
                /\ disc.onNodeLost => starts("lost", p)
          /\ (sweeps /\ disc.now - disc.nodes[p].LastSeen > NodeTimeout) =>
                disc'.nodes[p] = NoNode ]_vars

\* the sweeper has just run: it has removed one peer, started on_lost for
\* it, and kept a peer last seen exactly NodeTimeout ago
C23_SweptOneKeptOne ==
  \E p \in Peers, q \in Peers :
    /\ disc.lastSweep = disc.now
    /\ disc.nodes[p] = NoNode
    /\ disc.issued[p] # <<>>
    /\ disc.issued[p][Len(disc.issued[p])] = "lost"
    /\ [cb |-> "lost", peer |-> p, n |-> Len(disc.issued[p])] \in disc.pending
    /\ disc.nodes[q] # NoNode
    /\ disc.now - disc.nodes[q].LastSeen = NodeTimeout

\* discovered, lost, discovered, lost, ...
inOrder(seq) ==
  \A i \in 1..Len(seq) : seq[i] = IF i % 2 = 1 THEN "discovered" ELSE "lost"

\* C24: with both callbacks set, the callbacks that have run for a peer
\* are in the order discovered, lost, discovered, lost, ...
C24_CallbacksInOrder ==
  (disc.onNodeDiscovered /\ disc.onNodeLost) =>
    \A p \in Peers : inOrder(disc.delivered[p])

\* C32: two callbacks for the same peer never execute at the same time.
C32_CallbacksSerializedPerPeer ==
  \A c1 \in disc.running, c2 \in disc.running :
    c1 # c2 => c1.peer # c2.peer

\* C33: no callback executes in a goroutine that holds s.nodesMu, so the
\* RLock of a GetNodes or GetNode it calls waits for no lock of its own.
C33_CallbacksOutsideNodesMu ==
  \A c \in disc.running : ~c.holds

\* a callback executes while the handler that started it still holds
\* s.nodesMu
C33_CallbackDuringHandler ==
  \E c \in disc.running :
    /\ disc.nodesMu # "free"
    /\ c.n = Len(disc.issued[c.peer])
    /\ disc.first[c.peer] = disc.now \/ disc.lastSweep = disc.now

----------------------------------------------------------------------------
(* Properties of the host *)

\* the peer id is an entry of trusted_peers
listed(p) ==
  \E i \in 1..Len(gate.TrustedPeers) : gate.TrustedPeers[i] = p

\* C25: with a non-empty trusted_peers the host has no connection, dialled
\* or accepted, with a peer that is not in the list, and refuses every
\* attempt of such a peer; with an empty list it admits every peer.
C25_OnlyTrustedPeers ==
  /\ Len(gate.TrustedPeers) > 0 =>
        /\ \A c \in gate.conns : listed(c.peer)
        /\ (gate.last # NoDecision /\ ~listed(gate.last.peer)) =>
              ~gate.last.allowed
  /\ (Len(gate.TrustedPeers) = 0 /\ gate.last # NoDecision) => gate.last.allowed

----------------------------------------------------------------------------
(* Properties of the run command *)

\* C26: when the deploy phase has ended, it has ended with an error
\* exactly when no target succeeded, every target that succeeded is in
\* deployments with its app id, and the error list has one entry for every
\* target that failed and no other.
C26_FailsIffNoneSucceeded ==
  fan.pc = "returned" =>
    /\ fan.ret # "nil" <=> fan.succeeded = {}
    /\ \A k \in fan.succeeded : fan.deployments[fan.targetPeerIDs[k]] = "a1"
    /\ \A n \in Nodes : fan.deployments[n] # NoApp =>
          \E k \in fan.succeeded : fan.targetPeerIDs[k] = n
    /\ Len(fan.deployErrors) = Cardinality(fan.failed)
    /\ \A k \in fan.failed :
          \E e \in 1..Len(fan.deployErrors) :
            fan.deployErrors[e].node = fan.targetPeerIDs[k]

\* a deploy to three targets of which one succeeded and two failed has
\* ended without error
C26_PartialSuccess ==
  /\ fan.pc = "returned"
  /\ fan.ret = "nil"
  /\ Cardinality(fan.succeeded) = 1
  /\ Cardinality(fan.failed) = 2
  /\ Len(fan.deployErrors) = 2

\* the results the collector has taken from the channel for target k
received(k) ==
  Cardinality({e \in 1..Len(fan.deployErrors) :
                 fan.deployErrors[e].node = fan.targetPeerIDs[k]})
  + (IF fan.deployments[fan.targetPeerIDs[k]] # NoApp THEN 1 ELSE 0)

\* C40: a goroutine whose deploy returns finds room in the channel for its
\* result; when the collector has ended it has received exactly one result
\* for every target, no goroutine is left and no result is left in the
\* channel; and once every deploy has returned the collector ends.
C40_FanOutTerminates ==
  /\ [](\A k \in fan.running : Len(fan.results) < resultsCap(fan))
  /\ [](fan.pc = "returned" =>
          /\ fan.running = {}
          /\ fan.results = <<>>
          /\ \A k \in 1..Len(fan.targetPeerIDs) : received(k) = 1)
  /\ (fan.running = {}) ~> (fan.pc = "returned")

\* the collector has ended after a deploy to three targets
C40_AllCollected ==
  /\ fan.pc = "returned"
  /\ Len(fan.targetPeerIDs) = 3
  /\ fan.i = 3
  /\ fan.running = {}

====
